---- MODULE Spec2Model ----
(***************************************************************************)
(* Dispatch backends of coep: the distributed backend (DaskManager), the   *)
(* sequential backend (SingleThreadManager) and the local worker pool      *)
(* (Producer / ProducerManager).  Each backend has its own specification   *)
(* (SpecDask, SpecSeq, SpecPool); the variables of the other backends stay *)
(* at their initial values.  SpecOrch is the orchestrator                  *)
(* (ObjectiveProcessor) on top of a backend, SpecSPSA the SPSA optimizer   *)
(* for a one-dimensional parameter vector with constant gains.             *)
(*                                                                         *)
(* The worker pool is the one of coep/producer.py, whose Producer can be   *)
(* constructed; coep/managers/producer.py holds the same run(), run_batch  *)
(* and shut_down.  helpers.find_missing_params, which managers/dask.py     *)
(* imports, is not in the sources: it is modelled from its specification.  *)
(***************************************************************************)
EXTENDS Integers, Sequences, FiniteSets, TLC

\* ------------------------------------------------------------------ bounds
NItems == 2         \* distinct work-item values
MaxBatch == 3       \* longest batch handed to run_batch
MaxPoolBatch == 2   \* longest batch handed to the local pool's run_batch
MaxTransient == 1   \* transient failures (stochastic error / timeout) in a run
MaxRounds == 3      \* wait/classify rounds followed within one run_batch
MaxCloses == 2      \* shut_down calls followed per manager
MaxAppend == 2      \* items the sequential retry may append to the list
NWorkers == 2       \* workers of the local pool (n_proc)
MaxCalls == 2       \* run_batch calls followed on one local pool
NKeys == 2          \* distinct dictionary keys (parameter names)
MaxInst == 2        \* longest instance set of an orchestrator
MaxNames == 2       \* longest list of fit-parameter names
MaxIter == 2        \* largest options['maxiter']
MaxStart == 1       \* largest start_iter
MaxY == 2           \* objective values are 0 .. MaxY
MaxX0 == 1          \* x0 is one of -MaxX0 .. MaxX0
MaxRuns == 2        \* calls of SPSA followed on one state file
MaxGrid == 2        \* longest candidate list of a grid search
NCand == 2          \* distinct candidate vectors
MaxRes == 1         \* objective values of the grid search are 0 .. MaxRes
MaxProc == 3        \* largest n_proc a ProducerManager is constructed with
MaxSeed == 2        \* seeds drawn for a Producer are 1 .. MaxSeed
MaxOptCalls == 2    \* optimize calls followed on one COEP controller
MaxOptIter == 1     \* most iterations of an SPSA run under the controller
MaxEv == 3          \* most calls an unconstrained optimizer makes in a run

Items == 1 .. NItems

\* A batch is a Python list of work items; value-equal items may repeat.
Batches == UNION { [1 .. n -> Items] : n \in 1 .. MaxBatch }
PoolBatches == UNION { [1 .. n -> Items] : n \in 1 .. MaxPoolBatch }

\* What the user function does on an item: return a value ("ok"), return an
\* Exception instance ("errval"), or raise an exception ("raise").
Kinds == {"ok", "errval", "raise"}

VARIABLES
  behave,            \* the user function: Items -> Kinds
  transientLeft,     \* transient failures the run may still inject
  \* --- DaskManager
  dask_runnable,     \* self._runnable
  clusterCloses,     \* calls of self.cluster.close()
  d_pc,              \* "idle" | "wait" (in the while loop) | "done" (ended)
  d_params,          \* params of the current / last run_batch
  d_hard,            \* hard_error
  d_retry,           \* retry_failures
  d_rlist,           \* futures of the current round
  d_ret,             \* ret
  d_seen,            \* the futures as the last classification saw them
  d_rounds,          \* wait/classify rounds of this run_batch
  d_nsubmit,         \* client.submit calls of this run_batch
  d_result,          \* how the last run_batch ended
  \* --- SingleThreadManager
  seq_runnable,      \* self._runnable
  s_pc,              \* "idle" | "loop" (in the for loop) | "done" (ended)
  s_params,          \* the caller's list (run_batch appends to it)
  s_orig,            \* the caller's list as it was passed in
  s_hard,
  s_retry,
  s_i,               \* index of the next item of the for loop (1-based)
  s_ret,
  s_evals,           \* items evaluated by this run_batch
  s_log,             \* the items in the order run_batch evaluated them, each
                     \* with what the loop body did with it
  s_result,
  \* --- Producer / ProducerManager
  pool_runnable,     \* self._runnable
  rebuildable,       \* type(err)(<one string>) succeeds for func's exceptions
  qin, qout, qerr,   \* the input, output and error queues
  cin, cout, cerr,   \* who holds each queue's condition (its lock)
  w_pc,              \* each Producer's position in run()
  w_params,          \* each Producer's params (0: None)
  w_stop,            \* each Producer's _stop event
  p_pc,              \* "idle" | "enqueue" | "poll" | "errors" | "done"
  p_params,          \* params of the current / last run_batch
  p_hard,            \* hard_error
  p_rlist,           \* rlist
  p_result,          \* how the last run_batch ended
  p_err,             \* the queue entry whose error the last run_batch raised
  p_calls,           \* run_batch calls so far
  outstanding        \* per item value: enqueued and not yet collected

dvars == <<dask_runnable, clusterCloses, d_pc, d_params, d_hard, d_retry,
           d_rlist, d_ret, d_seen, d_rounds, d_nsubmit, d_result>>
svars == <<seq_runnable, s_pc, s_params, s_orig, s_hard, s_retry, s_i, s_ret,
           s_evals, s_log, s_result>>
pvars == <<pool_runnable, rebuildable, qin, qout, qerr, cin, cout, cerr,
           w_pc, w_params, w_stop, p_pc, p_params, p_hard, p_rlist, p_result,
           p_err, p_calls, outstanding>>
\* ObjectiveProcessor
VARIABLES
  o_pnames,          \* self.pnames: the fit-parameter names, a list of keys
  o_instances,       \* self.instance_set: a list of dictionaries
  o_aux,             \* self.aux_proc: a dictionary
  o_transform,       \* whether self.param_transform is not None
  o_mtype,           \* manager_type: "dask" or "singlethread"
  o_runnable,        \* self.pm._runnable
  o_scope,           \* "outside", "inside" or "exited" the with block
  o_exit,            \* how the with block was left: "none", "normal",
                     \* "exception"
  o_pc,              \* position in process_all_data
  o_arg,             \* fitting_params as the caller passed it
  o_fit,             \* the local fitting_params
  o_batch,           \* this_batch
  o_processed,       \* what self.pm.run_batch returned
  o_ret,             \* ret
  o_result,          \* "none", "running", "assert", "raised", "returned"
  o_ntransform,      \* calls of param_transform made by this call
  o_ndispatch        \* calls of self.pm.run_batch made by this call

ovars == <<o_pnames, o_instances, o_aux, o_transform, o_mtype, o_runnable,
           o_scope, o_exit, o_pc, o_arg, o_fit, o_batch, o_processed, o_ret,
           o_result, o_ntransform, o_ndispatch>>

\* SPSA
VARIABLES
  x0,                \* the start vector (one dimension)
  start_iter,        \* start_iter
  maxiter,           \* options['maxiter']
  xtol,              \* xtol, in units of 1 / XtolDen
  bounds,            \* bounds: [has |-> FALSE] for None, else one row lo, hi
  maxgrad,           \* maxgrad: [has |-> FALSE] for None, else a value
  savestate,         \* whether options['savestate'] is not None
  callback,          \* whether a callback was given
  statefile,         \* the file at savestate: absent, empty or one record
  sp_pc,             \* position in SPSA
  n_fev,             \* n_fev['n']
  n_iter,
  theta,
  saved_theta,
  theta_diff,        \* the convergence metric, as numpy computes it
  delta,
  theta_plus,
  theta_minus,
  y_plus,
  y_minus,
  fval,
  rmess,             \* "none", "tolerance", "maxiter" or "warning"
  n_cb,              \* calls of the callback made by this run
  ev_log,            \* where func was called, in order: "plus", "minus",
                     \* "final"
  resumed,           \* whether this run started from the state file
  sp_result,         \* "none", "assert", "raised", "killed" or "returned"
  objective,         \* func: any values, or a fixed function of theta
  deltas,            \* the perturbation of each iteration index, when fixed
  runs,              \* calls of SPSA made so far on this state file
  n_iter0,           \* n_iter and n_fev as this run started with them
  n_fev0,
  theta_begin,       \* theta as the current iteration found it
  cb_last            \* the last call of the callback: its arguments and
                     \* what had been done when it was made

qconf == <<x0, start_iter, maxiter, xtol, bounds, maxgrad, savestate,
           callback, objective, deltas>>
qghost == <<n_iter0, n_fev0, theta_begin, cb_last>>
qvars == <<qconf, statefile, sp_pc, n_fev, n_iter, theta, saved_theta,
           theta_diff, delta, theta_plus, theta_minus, y_plus, y_minus, fval,
           rmess, n_cb, ev_log, resumed, sp_result, runs, qghost>>

\* the managers' variables, and those of the layers above the managers
mvars == <<behave, transientLeft, dvars, svars, pvars>>

\* grid_search (optimizers/grid_search.py)
VARIABLES
  g_interp,          \* the interpreter: "py2" or "py3"
  g_x0,              \* the list of candidates
  g_callback,        \* whether a callback was given
  g_pc,              \* "off", "eval", "callback", "return" or "done"
  g_i,               \* position of ix in x0
  g_res,             \* res of the current candidate
  g_best_res,
  g_best_pars,
  g_nfev,
  g_log,             \* the calls of func that returned and of the callback
  g_opt,             \* the OptimizeResult
  g_result           \* "none", "raised", "typeerror" or "returned"

gvars == <<g_interp, g_x0, g_callback, g_pc, g_i, g_res, g_best_res,
           g_best_pars, g_nfev, g_log, g_opt, g_result>>

\* ProducerManager.__init__ (managers/producer.py, and the module
\* coep/producer.py that the package does not export)
VARIABLES
  k_module,          \* "managers" (exported by the package) or "legacy"
  k_n,               \* n_proc
  k_set_random,      \* set_random
  k_pc,              \* "off", "new", "loop", "done" or "shut"
  k_runnable,        \* self._runnable
  k_plist,           \* the seeds of the Producers in self.plist
  k_started,         \* Producers started
  k_result           \* "none", "raised" or "constructed"

kvars == <<k_module, k_n, k_set_random, k_pc, k_runnable, k_plist, k_started,
           k_result>>

\* COEP (coep.py) and the database it writes (database.py)
VARIABLES
  c_sink,            \* self.dbname is not None
  c_pc,              \* "off", "idle", "solve", "result" or "advance"
  c_call,            \* optimize calls started on this controller
  c_prog,            \* the optimizer: "any" or "spsa"
  c_n,               \* iterations the SPSA run of this call makes
  c_step,            \* calls the optimizer has made in this call
  c_result,          \* how the last optimize call ended
  db_cur,            \* OptimizationRuns/CurrentOptRun
  db_runs,           \* the run groups of OptimizationRuns, in creation order
  c_evals,           \* run_step calls made by the optimizer in this call
  c_completed,       \* of those, the ones whose data and objective came back
  c_cycles,          \* process_all_data calls in this call
  c_cbs,             \* _solver_cb calls in this call
  c_log,             \* what this call wrote, in order
  c_groups           \* per optimize call, the run group it created (or None)

cconf == <<c_sink>>
cghost == <<c_evals, c_completed, c_cycles, c_cbs, c_log, c_groups>>
cvars == <<c_sink, c_pc, c_call, c_prog, c_n, c_step, c_result, db_cur,
           db_runs, cghost>>

uvars == <<ovars, qvars, gvars, kvars, cvars>>

vars == <<mvars, uvars>>

\* ------------------------------------------------------------ user function
\* Outcome of func(**p): a value, or an Exception instance.
Value(p) == [kind |-> "value", of |-> p]
ExcValue(p) == [kind |-> "exception", of |-> p]
NoneValue == [kind |-> "none", of |-> 0]

Entry(p, r) == [item |-> p, out |-> r]

\* function_maker(func)(params): [params, func(**params)]; an exception raised
\* by func is not caught here and propagates to the caller ("raised").
function_maker(p, k) ==
  IF k = "ok" THEN [raised |-> FALSE, ps |-> p, res |-> Value(p)]
  ELSE IF k = "errval" THEN [raised |-> FALSE, ps |-> p, res |-> ExcValue(p)]
  ELSE [raised |-> TRUE, ps |-> p, res |-> ExcValue(p)]

Count(v, s) == Cardinality({i \in DOMAIN s : s[i] = v})
ItemsOf(entries) == [i \in DOMAIN entries |-> entries[i].item]

\* ------------------------------------------------------------- DaskManager
\* client.submit(fh, p, pure=False): one future per item.
Future(p) == [item |-> p, status |-> "submitted", result |-> NoneValue]
Submit(ps) == [i \in DOMAIN ps |-> Future(ps[i])]

\* The state of a future when wait() returns.  tr is what the environment
\* does to the task this round: nothing, a transient task error, or the task
\* is not done when the timeout expires.
Settle(f, tr) ==
  LET r == function_maker(f.item, behave[f.item]) IN
  IF tr # "none" THEN [f EXCEPT !.status = tr]
  ELSE IF r.raised THEN [f EXCEPT !.status = "error"]
  ELSE [f EXCEPT !.status = "finished", !.result = r.res]

\* ClassifyOne with an error-valued result appended to ret like any other.
ClassifyOne_KeepsErrorValues(f, acc, hard) ==
  IF acc.raised THEN acc
  ELSE IF f.status = "finished" THEN
         IF f.result.kind = "exception" /\ hard
           THEN [acc EXCEPT !.raised = TRUE]
           ELSE [acc EXCEPT !.ret = Append(@, Entry(f.item, f.result))]
  ELSE IF f.status \in {"error", "pending"} THEN
         IF hard THEN [acc EXCEPT !.raised = TRUE]
                 ELSE [acc EXCEPT !.running = TRUE]
  ELSE acc

\* ClassifyOne with a pending task never escalated by hard_error.
ClassifyOne_PendingNeverRaises(f, acc, hard) ==
  IF acc.raised THEN acc
  ELSE IF f.status = "finished" THEN
         IF f.result.kind = "exception"
           THEN IF hard THEN [acc EXCEPT !.raised = TRUE] ELSE acc
           ELSE [acc EXCEPT !.ret = Append(@, Entry(f.item, f.result))]
  ELSE IF f.status = "error" THEN
         IF hard THEN [acc EXCEPT !.raised = TRUE]
                 ELSE [acc EXCEPT !.running = TRUE]
  ELSE IF f.status = "pending" THEN [acc EXCEPT !.running = TRUE]
  ELSE acc

\* One pass of the body of `for f in rlist` over future f.
ClassifyOne(f, acc, hard) ==
  IF acc.raised THEN acc
  ELSE IF f.status = "finished" THEN
         IF f.result.kind = "exception"
           THEN IF hard THEN [acc EXCEPT !.raised = TRUE] ELSE acc
           ELSE [acc EXCEPT !.ret = Append(@, Entry(f.item, f.result))]
  ELSE IF f.status \in {"error", "pending"} THEN
         IF hard THEN [acc EXCEPT !.raised = TRUE]
                 ELSE [acc EXCEPT !.running = TRUE]
  ELSE acc

RECURSIVE Classify(_, _, _)
Classify(futs, acc, hard) ==
  IF futs = <<>> THEN acc
  ELSE Classify(Tail(futs), ClassifyOne(Head(futs), acc, hard), hard)

\* helpers.find_missing_params(params, uparams): the submitted items with no
\* value-equal entry among the resolved ones.
find_missing_params(params, uparams) ==
  SelectSeq(params, LAMBDA p : \A i \in DOMAIN uparams : uparams[i] # p)

DaskInit ==
  /\ dask_runnable = TRUE
  /\ clusterCloses = 0
  /\ d_pc = "idle"
  /\ d_params = <<>>
  /\ d_hard = FALSE
  /\ d_retry = FALSE
  /\ d_rlist = <<>>
  /\ d_ret = <<>>
  /\ d_seen = <<>>
  /\ d_rounds = 0
  /\ d_nsubmit = 0
  /\ d_result = "none"

\* run_batch up to the while loop: the _runnable assertion, then one submit
\* per item.
DaskRunBatch ==
  /\ d_pc = "idle"
  /\ \E ps \in Batches, hard \in BOOLEAN, retry \in BOOLEAN :
       /\ d_params' = ps
       /\ d_hard' = hard
       /\ d_retry' = retry
       /\ d_ret' = <<>>
       /\ d_seen' = <<>>
       /\ d_rounds' = 0
       /\ IF dask_runnable
            THEN /\ d_rlist' = Submit(ps)
                 /\ d_nsubmit' = Len(ps)
                 /\ d_pc' = "wait"
                 /\ d_result' = "running"
            ELSE /\ d_rlist' = <<>>
                 /\ d_nsubmit' = 0
                 /\ d_pc' = "done"
                 /\ d_result' = "assert"
  /\ UNCHANGED <<behave, transientLeft, dask_runnable, clusterCloses, svars, pvars, uvars>>

\* What the environment may do to the tasks of one round ("pending" needs a
\* timeout that is not None; a run with timeout=None never draws it).
Transients(n, budget) ==
  { tr \in [1 .. n -> {"none", "error", "pending"}] :
      Cardinality({i \in 1 .. n : tr[i] # "none"}) <= budget }

\* One iteration of the while loop: wait, classify every future, then either
\* raise, resubmit the missing items, or return ret.
DaskRound ==
  /\ d_pc = "wait"
  /\ d_rounds < MaxRounds
  /\ \E tr \in Transients(Len(d_rlist), transientLeft) :
       LET seen == [i \in DOMAIN d_rlist |-> Settle(d_rlist[i], tr[i])]
           acc == Classify(seen, [ret |-> d_ret, running |-> FALSE,
                                  raised |-> FALSE], d_hard)
           running == acc.running /\ d_retry
           missing == find_missing_params(d_params, ItemsOf(acc.ret))
       IN /\ transientLeft' =
               transientLeft - Cardinality({i \in DOMAIN tr : tr[i] # "none"})
          /\ d_seen' = seen
          /\ d_rounds' = d_rounds + 1
          /\ IF acc.raised
               THEN /\ d_pc' = "done"
                    /\ d_result' = "raised"
                    /\ UNCHANGED <<d_rlist, d_ret, d_nsubmit>>
               ELSE IF running
                 THEN /\ d_pc' = "wait"
                      /\ d_ret' = acc.ret
                      /\ d_rlist' = Submit(missing)
                      /\ d_nsubmit' = d_nsubmit + Len(missing)
                      /\ UNCHANGED d_result
                 ELSE /\ d_pc' = "done"
                      /\ d_ret' = acc.ret
                      /\ d_result' = "returned"
                      /\ UNCHANGED <<d_rlist, d_nsubmit>>
  /\ UNCHANGED <<behave, dask_runnable, clusterCloses, d_params, d_hard,
                 d_retry, svars, pvars, uvars>>

\* run_batch has returned or raised: its arguments and locals go out of
\* scope and the caller goes on.
DaskReturn ==
  /\ d_pc = "done"
  /\ d_pc' = "idle"
  /\ d_params' = <<>>
  /\ d_hard' = FALSE
  /\ d_retry' = FALSE
  /\ d_rlist' = <<>>
  /\ d_ret' = <<>>
  /\ d_seen' = <<>>
  /\ d_rounds' = 0
  /\ d_nsubmit' = 0
  /\ d_result' = "none"
  /\ UNCHANGED <<behave, transientLeft, dask_runnable, clusterCloses, svars,
                 pvars, uvars>>

\* DaskManager.shut_down (also reached from __del__ and from the
\* orchestrator's __exit__): closes the cluster, whatever _runnable is.
DaskShutDown ==
  /\ d_pc = "idle"
  /\ clusterCloses < MaxCloses
  /\ clusterCloses' = clusterCloses + 1
  /\ dask_runnable' = FALSE
  /\ UNCHANGED <<behave, transientLeft, d_pc, d_params, d_hard, d_retry,
                 d_rlist, d_ret, d_seen, d_rounds, d_nsubmit,
                 d_result, svars, pvars, uvars>>

\* ----------------------------------------------------- SingleThreadManager
SeqInit ==
  /\ seq_runnable = TRUE
  /\ s_pc = "idle"
  /\ s_params = <<>>
  /\ s_orig = <<>>
  /\ s_hard = FALSE
  /\ s_retry = FALSE
  /\ s_i = 1
  /\ s_ret = <<>>
  /\ s_evals = 0
  /\ s_log = <<>>
  /\ s_result = "none"

\* run_batch up to the for loop.  There is no _runnable check here: the only
\* assertion is on display_progress.  A timeout that is not None raises
\* NotImplementedError before anything else happens.
SeqRunBatch ==
  /\ s_pc = "idle"
  /\ \/ /\ s_result' = "notimplemented"
        /\ s_pc' = "done"
        /\ UNCHANGED <<s_params, s_orig, s_hard, s_retry, s_i, s_ret, s_evals,
                       s_log>>
     \/ \E ps \in Batches, hard \in BOOLEAN, retry \in BOOLEAN :
          /\ s_params' = ps
          /\ s_orig' = ps
          /\ s_hard' = hard
          /\ s_retry' = retry
          /\ s_i' = 1
          /\ s_ret' = <<>>
          /\ s_evals' = 0
          /\ s_log' = <<>>
          /\ s_pc' = "loop"
          /\ s_result' = "running"
  /\ UNCHANGED <<behave, transientLeft, seq_runnable, dvars, pvars, uvars>>

\* The body of the for loop for one outcome r of self.fh(p): what it does
\* with the item.  A raise of the user function is not caught anywhere, so
\* it leaves the loop whatever hard_error is.
SeqBody_HardKeepsGoing(r, hard, retry) ==
  IF r.raised THEN "raise"
  ELSE IF r.res.kind = "exception"
         THEN IF retry THEN "retry" ELSE "skip"
  ELSE "append"

SeqBody(r, hard, retry) ==
  IF r.raised THEN "raise"
  ELSE IF r.res.kind = "exception"
         THEN IF hard THEN "raise"
              ELSE IF retry THEN "retry" ELSE "skip"
  ELSE "append"

\* One pass of `for i, p in enumerate(params)`: the loop walks the list it
\* appends to, so an appended item is evaluated later in the same loop.
SeqEval ==
  /\ s_pc = "loop"
  /\ s_i <= Len(s_params)
  /\ \E tr \in {"none", "errval", "raise"} :
       LET p == s_params[s_i]
           r == function_maker(p, IF tr = "none" THEN behave[p] ELSE tr)
           act == SeqBody(r, s_hard, s_retry)
       IN /\ tr # "none" => transientLeft > 0
          /\ transientLeft' = IF tr = "none" THEN transientLeft
                                              ELSE transientLeft - 1
          /\ s_evals' = s_evals + 1
          /\ s_log' = Append(s_log, [item |-> p, act |-> act])
          /\ IF act = "raise"
               THEN /\ s_pc' = "done"
                    /\ s_result' = "raised"
                    /\ UNCHANGED <<s_params, s_i, s_ret>>
               ELSE /\ s_i' = s_i + 1
                    /\ UNCHANGED <<s_pc, s_result>>
                    /\ IF act = "append"
                         THEN /\ s_ret' = Append(s_ret, Entry(r.ps, r.res))
                              /\ UNCHANGED s_params
                         ELSE /\ UNCHANGED s_ret
                              /\ IF act = "retry"
                                   THEN /\ Len(s_params) < Len(s_orig) + MaxAppend
                                        /\ s_params' = Append(s_params, p)
                                   ELSE UNCHANGED s_params
  /\ UNCHANGED <<behave, seq_runnable, s_orig, s_hard, s_retry, dvars, pvars, uvars>>

\* The for loop is exhausted: return ret.
SeqReturn ==
  /\ s_pc = "loop"
  /\ s_i > Len(s_params)
  /\ s_pc' = "done"
  /\ s_result' = "returned"
  /\ UNCHANGED <<behave, transientLeft, seq_runnable, s_params, s_orig,
                 s_hard, s_retry, s_i, s_ret, s_evals, s_log, dvars, pvars, uvars>>

\* run_batch has returned or raised: the caller goes on.
SeqDone ==
  /\ s_pc = "done"
  /\ s_pc' = "idle"
  /\ s_params' = <<>>
  /\ s_orig' = <<>>
  /\ s_hard' = FALSE
  /\ s_retry' = FALSE
  /\ s_i' = 1
  /\ s_ret' = <<>>
  /\ s_evals' = 0
  /\ s_log' = <<>>
  /\ s_result' = "none"
  /\ UNCHANGED <<behave, transientLeft, seq_runnable, dvars, pvars, uvars>>

\* ProcManager.shut_down, inherited: just unsets _runnable.
SeqShutDown ==
  /\ s_pc = "idle"
  /\ seq_runnable' = FALSE
  /\ UNCHANGED <<behave, transientLeft, s_pc, s_params, s_orig, s_hard,
                 s_retry, s_i, s_ret, s_evals, s_log, s_result, dvars, pvars, uvars>>

\* ------------------------------------------------- Producer / ProducerManager
Workers == 1 .. NWorkers
Free == [by |-> "nobody", id |-> 0]
HeldByWorker(w) == [by |-> "worker", id |-> w]
HeldByDispatcher == [by |-> "dispatcher", id |-> 0]

PoolInit ==
  /\ pool_runnable = TRUE
  /\ rebuildable \in BOOLEAN
  /\ qin = <<>>
  /\ qout = <<>>
  /\ qerr = <<>>
  /\ cin = Free
  /\ cout = Free
  /\ cerr = Free
  /\ w_pc = [w \in Workers |-> "top"]
  /\ w_params = [w \in Workers |-> 0]
  /\ w_stop = [w \in Workers |-> FALSE]
  /\ p_pc = "idle"
  /\ p_params = <<>>
  /\ p_hard = FALSE
  /\ p_rlist = <<>>
  /\ p_result = "none"
  /\ p_err = Entry(0, NoneValue)
  /\ p_calls = 0
  /\ outstanding = [v \in Items |-> 0]

WorkerFrame == UNCHANGED <<behave, transientLeft, dvars, svars, uvars,
                           pool_runnable,
                           rebuildable, w_stop, p_pc, p_params, p_hard,
                           p_rlist, p_result, p_err, p_calls, outstanding>>

\* `while not self._stop.is_set()`; the `if self._stop.is_set(): return` that
\* ends the loop body reads the same flag right before and is folded in here.
ProducerTop(w) ==
  /\ w_pc[w] = "top"
  /\ w_pc' = [w_pc EXCEPT ![w] = IF w_stop[w] THEN "exited" ELSE "acquire"]
  /\ UNCHANGED <<qin, qout, qerr, cin, cout, cerr, w_params>>
  /\ WorkerFrame

\* self._set_cond.acquire()
ProducerAcquire(w) ==
  /\ w_pc[w] = "acquire"
  /\ cin = Free
  /\ cin' = HeldByWorker(w)
  /\ w_pc' = [w_pc EXCEPT ![w] = "empty"]
  /\ UNCHANGED <<qin, qout, qerr, cout, cerr, w_params>>
  /\ WorkerFrame

\* `if self._set_q.empty(): params = None`, then release.
ProducerEmpty(w) ==
  /\ w_pc[w] = "empty"
  /\ IF qin = <<>>
       THEN /\ w_params' = [w_params EXCEPT ![w] = 0]
            /\ cin' = Free
            /\ w_pc' = [w_pc EXCEPT ![w] = "top"]
       ELSE /\ w_pc' = [w_pc EXCEPT ![w] = "get"]
            /\ UNCHANGED <<w_params, cin>>
  /\ UNCHANGED <<qin, qout, qerr, cout, cerr>>
  /\ WorkerFrame

\* `params = self._set_q.get()` (blocks while the queue is empty), then
\* release.
ProducerGet(w) ==
  /\ w_pc[w] = "get"
  /\ qin # <<>>
  /\ w_params' = [w_params EXCEPT ![w] = Head(qin)]
  /\ qin' = Tail(qin)
  /\ cin' = Free
  /\ w_pc' = [w_pc EXCEPT ![w] = "run"]
  /\ UNCHANGED <<qout, qerr, cout, cerr>>
  /\ WorkerFrame

\* The try block up to the call: self._f(**uparams) returns (an Exception
\* instance it returns is an outcome like any other) or raises.
ProducerRun(w) ==
  /\ w_pc[w] = "run"
  /\ w_pc' = [w_pc EXCEPT ![w] =
       IF function_maker(w_params[w], behave[w_params[w]]).raised
         THEN "err_acquire" ELSE "out_acquire"]
  /\ UNCHANGED <<qin, qout, qerr, cin, cout, cerr, w_params>>
  /\ WorkerFrame

\* self._get_cond.acquire()
ProducerOutAcquire(w) ==
  /\ w_pc[w] = "out_acquire"
  /\ cout = Free
  /\ cout' = HeldByWorker(w)
  /\ w_pc' = [w_pc EXCEPT ![w] = "out_put"]
  /\ UNCHANGED <<qin, qout, qerr, cin, cerr, w_params>>
  /\ WorkerFrame

\* self._get_q.put(ret); notify; release
ProducerOutPut(w) ==
  /\ w_pc[w] = "out_put"
  /\ qout' = Append(qout, Entry(w_params[w],
               function_maker(w_params[w], behave[w_params[w]]).res))
  /\ cout' = Free
  /\ w_pc' = [w_pc EXCEPT ![w] = "top"]
  /\ UNCHANGED <<qin, qerr, cin, cerr, w_params>>
  /\ WorkerFrame

\* self._err_cond.acquire()
ProducerErrAcquire(w) ==
  /\ w_pc[w] = "err_acquire"
  /\ cerr = Free
  /\ cerr' = HeldByWorker(w)
  /\ w_pc' = [w_pc EXCEPT ![w] = "err_put"]
  /\ UNCHANGED <<qin, qout, qerr, cin, cout, w_params>>
  /\ WorkerFrame

\* newerr = type(err)(...); self._err_q.put((params, newerr)); notify;
\* release.  When the exception's class cannot be built from one string the
\* constructor raises inside the handler: run() ends with the condition held.
ProducerErrPut(w) ==
  /\ w_pc[w] = "err_put"
  /\ IF rebuildable
       THEN /\ qerr' = Append(qerr, Entry(w_params[w], ExcValue(w_params[w])))
            /\ cerr' = Free
            /\ w_pc' = [w_pc EXCEPT ![w] = "top"]
       ELSE /\ w_pc' = [w_pc EXCEPT ![w] = "crashed"]
            /\ UNCHANGED <<qerr, cerr>>
  /\ UNCHANGED <<qin, qout, cin, cout, w_params>>
  /\ WorkerFrame

DispatcherFrame == UNCHANGED <<behave, transientLeft, dvars, svars, uvars,
                               rebuildable, w_pc, w_params>>

\* run_batch: the _runnable assertion.
PoolRunBatch ==
  /\ p_pc = "idle"
  /\ p_calls < MaxCalls
  /\ p_calls' = p_calls + 1
  /\ \E ps \in PoolBatches, hard \in BOOLEAN :
       /\ p_params' = ps
       /\ p_hard' = hard
  /\ p_rlist' = <<>>
  /\ p_err' = Entry(0, NoneValue)
  /\ IF pool_runnable
       THEN p_pc' = "enqueue" /\ p_result' = "running"
       ELSE p_pc' = "done" /\ p_result' = "assert"
  /\ UNCHANGED <<pool_runnable, qin, qout, qerr, cin, cout, cerr, w_stop,
                 outstanding>>
  /\ DispatcherFrame

\* cin.acquire(); put every item; notify; release.
PoolEnqueue ==
  /\ p_pc = "enqueue"
  /\ cin = Free
  /\ qin' = qin \o p_params
  /\ outstanding' = [v \in Items |-> outstanding[v] + Count(v, p_params)]
  /\ p_pc' = "poll"
  /\ UNCHANGED <<pool_runnable, qout, qerr, cin, cout, cerr, w_stop, p_params,
                 p_hard, p_rlist, p_result, p_err, p_calls>>
  /\ DispatcherFrame

\* `while len(rlist) < n_params`, then the output queue is drained under cout.
PoolDrain ==
  /\ p_pc = "poll"
  /\ IF Len(p_rlist) < Len(p_params)
       THEN /\ cout = Free
            /\ p_rlist' = p_rlist \o qout
            /\ qout' = <<>>
            /\ outstanding' = [v \in Items |->
                                outstanding[v] - Count(v, ItemsOf(qout))]
            /\ p_pc' = "errors"
            /\ UNCHANGED p_result
       ELSE /\ p_pc' = "done"
            /\ p_result' = "returned"
            /\ UNCHANGED <<p_rlist, qout, outstanding>>
  /\ UNCHANGED <<pool_runnable, qin, qerr, cin, cout, cerr, w_stop, p_params,
                 p_hard, p_err, p_calls>>
  /\ DispatcherFrame

\* "Look for errors": at most one entry of the error queue per wake.  The
\* raise leaves run_batch between cerr.acquire() and cerr.release(); the
\* condition's lock is reentrant for the dispatcher, not for the workers.
PoolErrors ==
  /\ p_pc = "errors"
  /\ cerr \in {Free, HeldByDispatcher}
  /\ IF qerr = <<>>
       THEN /\ p_pc' = "poll"
            /\ UNCHANGED <<qerr, cerr, p_rlist, p_result, p_err, outstanding>>
       ELSE /\ qerr' = Tail(qerr)
            /\ outstanding' = [outstanding EXCEPT ![Head(qerr).item] = @ - 1]
            /\ IF p_hard
                 THEN /\ p_pc' = "done"
                      /\ p_result' = "raised"
                      /\ p_err' = Head(qerr)
                      /\ cerr' = HeldByDispatcher
                      /\ UNCHANGED p_rlist
                 ELSE /\ p_rlist' = Append(p_rlist,
                                           Entry(Head(qerr).item, NoneValue))
                      /\ p_pc' = "poll"
                      /\ UNCHANGED <<cerr, p_result, p_err>>
  /\ UNCHANGED <<pool_runnable, qin, qout, cin, cout, w_stop, p_params,
                 p_hard, p_calls>>
  /\ DispatcherFrame

\* run_batch has returned or raised: the caller goes on.
PoolReturn ==
  /\ p_pc = "done"
  /\ p_pc' = "idle"
  /\ p_params' = <<>>
  /\ p_hard' = FALSE
  /\ p_rlist' = <<>>
  /\ p_result' = "none"
  /\ p_err' = Entry(0, NoneValue)
  /\ UNCHANGED <<pool_runnable, qin, qout, qerr, cin, cout, cerr, w_stop,
                 p_calls, outstanding>>
  /\ DispatcherFrame

\* ProducerManager.shut_down: stop() on every Producer, then unset _runnable.
PoolShutDown ==
  /\ p_pc = "idle"
  /\ w_stop' = [w \in Workers |-> TRUE]
  /\ pool_runnable' = FALSE
  /\ UNCHANGED <<qin, qout, qerr, cin, cout, cerr, p_pc, p_params, p_hard,
                 p_rlist, p_result, p_err, p_calls, outstanding>>
  /\ DispatcherFrame

\* ------------------------------------------------- ObjectiveProcessor
\* Dictionaries are functions from a set of keys; a value records where it
\* came from, so that an override can be told from what it replaced.
Keys == 1 .. NKeys
InstVal(i) == [from |-> "instance", n |-> i]
FitVal(j) == [from |-> "fit", n |-> j]
Transformed(v) == [from |-> "transformed", n |-> v.n]
AuxVal(k) == [from |-> "aux", n |-> k]

\* the constructor's arguments; the instances of one set have the same keys
\* (the parameters of a trial) and differ in their values
InstanceSets ==
  { [i \in 1 .. n |-> [k \in ks |-> InstVal(i)]] :
       n \in 0 .. MaxInst, ks \in SUBSET Keys }
\* the parameter names of one list are distinct
NameLists ==
  { ns \in UNION { [1 .. n -> Keys] : n \in 0 .. MaxNames } :
      \A i, j \in DOMAIN ns : ns[i] = ns[j] => i = j }
AuxDicts == { [k \in ks |-> AuxVal(k)] : ks \in SUBSET Keys }

\* the fitting_params a caller may pass: any length up to one more than the
\* longest name list
FlatParams == { [j \in 1 .. n |-> FitVal(j)] : n \in 0 .. MaxNames + 1 }

\* fit_param_transform(fitting_params, pnames): a list of transformed values
param_transform(fit) == [j \in DOMAIN fit |-> Transformed(fit[j])]

Min(a, b) == IF a < b THEN a ELSE b
LastIndex(names, n, k) ==
  CHOOSE j \in 1 .. n :
    names[j] = k /\ \A j2 \in 1 .. n : names[j2] = k => j2 <= j

\* dict(zip(names, vals)): zip stops at the shorter list, a repeated name
\* keeps its last value
ZipDict(names, vals) ==
  LET n == Min(Len(names), Len(vals))
  IN [k \in {names[j] : j \in 1 .. n} |-> vals[LastIndex(names, n, k)]]

\* d.update(e)
Update_KeepsOld(d, e) ==
  [k \in DOMAIN d \cup DOMAIN e |-> IF k \in DOMAIN d THEN d[k] ELSE e[k]]

Update(d, e) ==
  [k \in DOMAIN d \cup DOMAIN e |-> IF k \in DOMAIN e THEN e[k] ELSE d[k]]

\* strip_names = self.pnames + list(self.aux_proc.keys())
StripNames_FitOnly(names, aux) == {names[j] : j \in DOMAIN names}

StripNames(names, aux) == {names[j] : j \in DOMAIN names} \cup DOMAIN aux

\* clean_params: the items of pset whose key is not in strip_names
Clean_KeepsAll(pset, strip) == pset

Clean(pset, strip) == [k \in DOMAIN pset \ strip |-> pset[k]]

\* the negation of the asserted len(fitting_params) == len(self.pnames)
Malformed_NeverChecked(fit, names) == FALSE

Malformed(fit, names) == Len(fit) # Len(names)

\* __exit__ calls self.shut_down() whatever its three arguments are
ExitShutsDown_OnlyWithoutException(exc) == ~exc

ExitShutsDown(exc) == TRUE

\* ObjectiveProcessor.__init__: the arguments are stored as they are and the
\* backend is created, runnable.  Another manager_type raises and leaves no
\* object.
OrchInit ==
  /\ o_pnames \in NameLists
  /\ o_instances \in InstanceSets
  /\ o_aux \in AuxDicts
  /\ o_transform \in BOOLEAN
  /\ o_mtype \in {"dask", "singlethread"}
  /\ o_runnable = TRUE
  /\ o_scope = "outside"
  /\ o_exit = "none"
  /\ o_pc = "idle"
  /\ o_arg = <<>>
  /\ o_fit = <<>>
  /\ o_batch = <<>>
  /\ o_processed = <<>>
  /\ o_ret = <<>>
  /\ o_result = "none"
  /\ o_ntransform = 0
  /\ o_ndispatch = 0

\* no orchestrator above the managers
OrchNone ==
  /\ o_pnames = <<>>
  /\ o_instances = <<>>
  /\ o_aux = <<>>
  /\ o_transform = FALSE
  /\ o_mtype = "singlethread"
  /\ o_runnable = TRUE
  /\ o_scope = "outside"
  /\ o_exit = "none"
  /\ o_pc = "idle"
  /\ o_arg = <<>>
  /\ o_fit = <<>>
  /\ o_batch = <<>>
  /\ o_processed = <<>>
  /\ o_ret = <<>>
  /\ o_result = "none"
  /\ o_ntransform = 0
  /\ o_ndispatch = 0

OrchConfig == <<o_pnames, o_instances, o_aux, o_transform, o_mtype>>
OrchCallVars == <<o_pc, o_arg, o_fit, o_batch, o_processed, o_ret, o_result,
                  o_ntransform, o_ndispatch>>

\* __enter__
OrchEnter ==
  /\ o_scope = "outside"
  /\ o_pc = "idle"
  /\ o_scope' = "inside"
  /\ UNCHANGED <<mvars, qvars, gvars, kvars, cvars, OrchConfig, OrchCallVars, o_runnable, o_exit>>

\* process_all_data is called: the assertion on the length comes first.
OrchCall ==
  /\ o_pc = "idle"
  /\ \E fit \in FlatParams :
       /\ o_arg' = fit
       /\ o_fit' = fit
       /\ IF Malformed(fit, o_pnames)
            THEN o_pc' = "done" /\ o_result' = "assert"
            ELSE o_pc' = "transform" /\ o_result' = "running"
  /\ o_batch' = <<>>
  /\ o_processed' = <<>>
  /\ o_ret' = <<>>
  /\ o_ntransform' = 0
  /\ o_ndispatch' = 0
  /\ UNCHANGED <<mvars, qvars, gvars, kvars, cvars, OrchConfig, o_runnable, o_scope, o_exit>>

\* if self.param_transform is not None: fitting_params = transform(...)
OrchTransform ==
  /\ o_pc = "transform"
  /\ IF o_transform
       THEN /\ o_fit' = param_transform(o_fit)
            /\ o_ntransform' = o_ntransform + 1
       ELSE UNCHANGED <<o_fit, o_ntransform>>
  /\ o_pc' = "build"
  /\ UNCHANGED <<mvars, qvars, gvars, kvars, cvars, OrchConfig, o_runnable, o_scope, o_exit, o_arg,
                 o_batch, o_processed, o_ret, o_result, o_ndispatch>>

\* this_batch: for each instance a copy, updated with the bound parameters
\* and then with the auxiliary parameters.
OrchBuild ==
  /\ o_pc = "build"
  /\ o_batch' = [i \in DOMAIN o_instances |->
                   Update(Update(o_instances[i], ZipDict(o_pnames, o_fit)),
                          o_aux)]
  /\ o_pc' = "dispatch"
  /\ UNCHANGED <<mvars, qvars, gvars, kvars, cvars, OrchConfig, o_runnable, o_scope, o_exit, o_arg,
                 o_fit, o_processed, o_ret, o_result, o_ntransform,
                 o_ndispatch>>

\* self.pm.run_batch(this_batch, ...), by what every backend's run_batch
\* does: a closed DaskManager fails its assertion; otherwise it raises, or
\* returns entries [ps, r] for some of the submitted items.
OrchDispatch ==
  /\ o_pc = "dispatch"
  /\ o_ndispatch' = o_ndispatch + 1
  /\ IF o_mtype = "dask" /\ ~o_runnable
       THEN /\ o_pc' = "done"
            /\ o_result' = "assert"
            /\ UNCHANGED o_processed
       ELSE \/ /\ o_pc' = "done"
               /\ o_result' = "raised"
               /\ UNCHANGED o_processed
            \/ \E done \in SUBSET DOMAIN o_batch :
                 /\ o_processed' =
                      SelectSeq([i \in DOMAIN o_batch |->
                                   [item |-> o_batch[i], idx |-> i,
                                    out |-> Value(i)]],
                                LAMBDA e : e.idx \in done)
                 /\ o_pc' = "strip"
                 /\ UNCHANGED o_result
  /\ UNCHANGED <<mvars, qvars, gvars, kvars, cvars, OrchConfig, o_runnable, o_scope, o_exit, o_arg,
                 o_fit, o_batch, o_ret, o_ntransform>>

\* the clean-up loop and `return ret`
OrchStrip ==
  /\ o_pc = "strip"
  /\ o_ret' = [i \in DOMAIN o_processed |->
                 [item |-> Clean(o_processed[i].item,
                                 StripNames(o_pnames, o_aux)),
                  idx |-> o_processed[i].idx,
                  out |-> o_processed[i].out]]
  /\ o_pc' = "done"
  /\ o_result' = "returned"
  /\ UNCHANGED <<mvars, qvars, gvars, kvars, cvars, OrchConfig, o_runnable, o_scope, o_exit, o_arg,
                 o_fit, o_batch, o_processed, o_ntransform, o_ndispatch>>

\* process_all_data has returned or raised and the caller goes on
OrchReturn ==
  /\ o_pc = "done"
  /\ o_pc' = "idle"
  /\ o_arg' = <<>>
  /\ o_fit' = <<>>
  /\ o_batch' = <<>>
  /\ o_processed' = <<>>
  /\ o_ret' = <<>>
  /\ o_result' = "none"
  /\ o_ntransform' = 0
  /\ o_ndispatch' = 0
  /\ UNCHANGED <<mvars, qvars, gvars, kvars, cvars, OrchConfig, o_runnable, o_scope, o_exit>>

\* ObjectiveProcessor.shut_down, called by the owner: self.pm.shut_down()
OrchShutDown ==
  /\ o_pc = "idle"
  /\ o_runnable
  /\ o_runnable' = FALSE
  /\ UNCHANGED <<mvars, qvars, gvars, kvars, cvars, OrchConfig, OrchCallVars, o_scope, o_exit>>

\* The with block is left, normally or by an exception that process_all_data
\* raised inside it: __exit__ runs.
OrchExit ==
  /\ o_scope = "inside"
  /\ \/ o_pc = "idle"
     \/ o_pc = "done" /\ o_result \in {"assert", "raised"}
  /\ LET exc == o_pc = "done"
     IN /\ o_exit' = IF exc THEN "exception" ELSE "normal"
        /\ o_runnable' = IF ExitShutsDown(exc) THEN FALSE ELSE o_runnable
  /\ o_scope' = "exited"
  /\ o_pc' = "idle"
  /\ o_arg' = <<>>
  /\ o_fit' = <<>>
  /\ o_batch' = <<>>
  /\ o_processed' = <<>>
  /\ o_ret' = <<>>
  /\ o_result' = "none"
  /\ o_ntransform' = 0
  /\ o_ndispatch' = 0
  /\ UNCHANGED <<mvars, qvars, gvars, kvars, cvars, OrchConfig>>

\* --------------------------------------------------------------- SPSA
\* The parameter vector has one dimension and integer values.  The gains are
\* constant (alpha = gamma = 0, so ak = a_par and ck = c_par) and chosen so
\* that every value of the run is an integer: theta -= ak * g_hat subtracts
\* a_par * y_diff / (2 * c_par * delta).
a_par == 2
c_par == 1
XtolDen == 2

YVals == 0 .. MaxY
X0s == (0 - MaxX0) .. MaxX0
\* bounds: None, or an array; shape_ok says that its shape is (n_params, 2)
NoBounds == [has |-> FALSE, shape_ok |-> TRUE, lo |-> 0, hi |-> 0]
BoundsSet ==
  {NoBounds, [has |-> TRUE, shape_ok |-> FALSE, lo |-> 0, hi |-> MaxX0]}
    \cup { [has |-> TRUE, shape_ok |-> TRUE, lo |-> l, hi |-> h] :
              l, h \in 0 .. MaxX0 }

\* the negation of the two assertions on bounds
BadBounds_EqualAllowed(b) == b.has /\ (~b.shape_ok \/ b.hi < b.lo)

BadBounds(b) == b.has /\ (~b.shape_ok \/ ~(b.hi > b.lo))
NoMaxgrad == [has |-> FALSE, val |-> 0]
MaxgradSet == {NoMaxgrad} \cup { [has |-> TRUE, val |-> g] : g \in 0 .. 1 }

\* the file at options['savestate']
Absent ==
  [state |-> "absent", n_fev |-> 0, n_iter |-> 0, saved_theta |-> 0,
   theta |-> 0]
Truncated ==
  [state |-> "empty", n_fev |-> 0, n_iter |-> 0, saved_theta |-> 0,
   theta |-> 0]
Record(nf, ni, st, th) ==
  [state |-> "record", n_fev |-> nf, n_iter |-> ni, saved_theta |-> st,
   theta |-> th]
\* what an earlier run may have left there: nothing, a file cut short, or
\* the record of its first iteration
StateFiles ==
  {Absent, Truncated}
    \cup { Record(2, 1, st, th) : st \in 0 .. MaxX0, th \in 0 .. MaxX0 }

Abs(v) == IF v < 0 THEN 0 - v ELSE v

\* np.linalg.norm(saved_theta - theta) / np.linalg.norm(saved_theta) in
\* floating point: a zero denominator gives inf, or nan for 0 / 0.
Metric(st, th) ==
  IF st # 0 THEN [kind |-> "num", num |-> Abs(st - th), den |-> Abs(st)]
  ELSE IF th # 0 THEN [kind |-> "inf", num |-> Abs(th), den |-> 0]
  ELSE [kind |-> "nan", num |-> 0, den |-> 0]
NoMetric == [kind |-> "none", num |-> 0, den |-> 0]

\* theta_diff > xtol and theta_diff <= xtol; both are false for nan
Exceeds(m, x) ==
  \/ m.kind = "inf"
  \/ m.kind = "num" /\ m.num * XtolDen > x * m.den
AtMost(m, x) == m.kind = "num" /\ m.num * XtolDen <= x * m.den

\* while theta_diff > xtol and n_iter < maxiter
LoopTest_OneMore(td, x, ni, mx) == Exceeds(td, x) /\ ni <= mx

LoopTest(td, x, ni, mx) == Exceeds(td, x) /\ ni < mx

\* np.clip(v, bounds[:, 0], bounds[:, 1]) when bounds is not None
Clip(v, b) ==
  IF ~b.has THEN v
  ELSE IF v < b.lo THEN b.lo
  ELSE IF v > b.hi THEN b.hi
  ELSE v

\* y_diff *= maxgrad / grad_size when grad_size > maxgrad
Clamp(yd, g) ==
  IF g.has /\ Abs(yd) > g.val
    THEN (IF yd < 0 THEN 0 - g.val ELSE g.val)
    ELSE yd

\* func: either any value of YVals at each call (a stochastic or unknown
\* objective, which may also raise), or the fixed function
\* min(MaxY, |theta - c|), which always returns
AnyObjective == [det |-> FALSE, c |-> 0]
FixedObjectives == { [det |-> TRUE, c |-> c] : c \in X0s }
F(c, th) == IF Abs(th - c) > MaxY THEN MaxY ELSE Abs(th - c)
YOf(th) == IF objective.det THEN {F(objective.c, th)} ELSE YVals

\* np.random.randint(0, 2, n_params) * 2 - 1: any of the two values, or the
\* one fixed for the iteration index when the draws are fixed
DeltaSeqs == [0 .. MaxIter - 1 -> {0 - 1, 1}]
NoDeltas == [k \in 0 .. MaxIter - 1 |-> 1]
DeltasAt(k) == IF objective.det THEN {deltas[k]} ELSE {0 - 1, 1}

\* callback(saved_theta, avg_loss), avg_loss = (y_plus + y_minus) / 2 kept as
\* its double; with it, what the run had done when the call was made
NoCall == [x |-> 0, sum |-> 0, at_iter |-> 0, at_fev |-> 0, on_file |-> 0]
CallbackArgs_UpdatedTheta(st, th, yp, ym) == [x |-> th, sum |-> yp + ym]

CallbackArgs(st, th, yp, ym) == [x |-> st, sum |-> yp + ym]

\* the dictionary handed to json.dump at the end of an iteration
Checkpoint_IterationBefore(nf, ni, st, th) == Record(nf, ni - 1, st, th)

Checkpoint(nf, ni, st, th) == Record(nf, ni, st, th)

\* if savestate is not None and os.path.exists(savestate): os.remove(savestate)
AfterReturn_Kept(sv, file) == file

AfterReturn(sv, file) == IF sv THEN Absent ELSE file

\* loss(ps): n_fev['n'] += 1 before func is called
loss_fev_FinalNotCounted(n, at) == IF at = "final" THEN n ELSE n + 1

loss_fev(n, at) == n + 1

\* SPSA is about to be called
SpsaInit ==
  /\ x0 \in X0s
  /\ start_iter \in 0 .. MaxStart
  /\ maxiter \in 0 .. MaxIter
  /\ xtol \in 0 .. 1
  /\ bounds \in BoundsSet
  /\ maxgrad \in MaxgradSet
  /\ savestate \in BOOLEAN
  /\ callback \in BOOLEAN
  /\ statefile \in StateFiles
  /\ ~savestate => statefile = Absent
  /\ sp_pc = "start"
  /\ n_fev = 0
  /\ n_iter = 0
  /\ theta = 0
  /\ saved_theta = 0
  /\ theta_diff = NoMetric
  /\ delta = 1
  /\ theta_plus = 0
  /\ theta_minus = 0
  /\ y_plus = 0
  /\ y_minus = 0
  /\ fval = 0
  /\ rmess = "none"
  /\ n_cb = 0
  /\ ev_log = <<>>
  /\ resumed = FALSE
  /\ sp_result = "none"
  /\ objective = AnyObjective
  /\ deltas = NoDeltas
  /\ runs = 1
  /\ n_iter0 = 0
  /\ n_fev0 = 0
  /\ theta_begin = 0
  /\ cb_last = NoCall

\* no optimizer above the managers
SpsaNone ==
  /\ x0 = 0
  /\ start_iter = 0
  /\ maxiter = 0
  /\ xtol = 0
  /\ bounds = NoBounds
  /\ maxgrad = NoMaxgrad
  /\ savestate = FALSE
  /\ callback = FALSE
  /\ statefile = Absent
  /\ sp_pc = "start"
  /\ n_fev = 0
  /\ n_iter = 0
  /\ theta = 0
  /\ saved_theta = 0
  /\ theta_diff = NoMetric
  /\ delta = 1
  /\ theta_plus = 0
  /\ theta_minus = 0
  /\ y_plus = 0
  /\ y_minus = 0
  /\ fval = 0
  /\ rmess = "none"
  /\ n_cb = 0
  /\ ev_log = <<>>
  /\ resumed = FALSE
  /\ sp_result = "none"
  /\ objective = AnyObjective
  /\ deltas = NoDeltas
  /\ runs = 1
  /\ n_iter0 = 0
  /\ n_fev0 = 0
  /\ theta_begin = 0
  /\ cb_last = NoCall

SpsaFrame ==
  UNCHANGED <<mvars, ovars, gvars, kvars, cvars, qconf, runs>>

\* Lines 80-123: the state is loaded from the state file if there is one,
\* else set from x0 and start_iter; then the assertions on bounds and
\* maxgrad; then the first convergence metric.
SpsaStart ==
  /\ sp_pc = "start"
  /\ LET load == savestate /\ statefile.state # "absent"
         th == IF load THEN statefile.theta ELSE x0
         st == IF load THEN statefile.saved_theta
               ELSE IF x0 = 0 THEN 10 ELSE x0 * 100
     IN IF load /\ statefile.state = "empty"
          THEN /\ sp_pc' = "done"
               /\ sp_result' = "raised"
               /\ resumed' = TRUE
               /\ UNCHANGED <<n_fev, n_iter, theta, saved_theta, theta_diff,
                              n_iter0, n_fev0>>
          ELSE /\ resumed' = load
               /\ n_fev' = IF load THEN statefile.n_fev ELSE 0
               /\ n_iter' = IF load THEN statefile.n_iter ELSE start_iter
               /\ n_fev0' = n_fev'
               /\ n_iter0' = n_iter'
               /\ theta' = th
               /\ saved_theta' = st
               /\ IF \/ BadBounds(bounds)
                     \/ maxgrad.has /\ ~(maxgrad.val > 0)
                    THEN /\ sp_pc' = "done"
                         /\ sp_result' = "assert"
                         /\ UNCHANGED theta_diff
                    ELSE /\ theta_diff' = Metric(st, th)
                         /\ sp_pc' = "test"
                         /\ UNCHANGED sp_result
  /\ UNCHANGED <<statefile, delta, theta_plus, theta_minus, y_plus, y_minus,
                 fval, rmess, n_cb, ev_log, theta_begin, cb_last>>
  /\ SpsaFrame

\* The while test.  If it holds the iteration begins: saved_theta, the
\* perturbation and the two clipped points.  If not, the message is chosen.
SpsaTest ==
  /\ sp_pc = "test"
  /\ IF LoopTest(theta_diff, xtol, n_iter, maxiter)
       THEN /\ \E d \in DeltasAt(n_iter) :
                 /\ delta' = d
                 /\ theta_plus' = Clip(theta + c_par * d, bounds)
                 /\ theta_minus' = Clip(theta - c_par * d, bounds)
            /\ saved_theta' = theta
            /\ theta_begin' = theta
            /\ sp_pc' = "plus"
            /\ UNCHANGED rmess
       ELSE /\ rmess' = IF AtMost(theta_diff, xtol) THEN "tolerance"
                        ELSE IF n_iter >= maxiter THEN "maxiter"
                        ELSE "warning"
            /\ sp_pc' = "final"
            /\ UNCHANGED <<delta, theta_plus, theta_minus, saved_theta,
                           theta_begin>>
  /\ UNCHANGED <<statefile, n_fev, n_iter, theta, theta_diff, y_plus, y_minus,
                 fval, n_cb, ev_log, resumed, sp_result, n_iter0, n_fev0,
                 cb_last>>
  /\ SpsaFrame

\* y_plus = loss(theta_plus): func returns a value or raises
SpsaEvalPlus ==
  /\ sp_pc = "plus"
  /\ n_fev' = loss_fev(n_fev, "plus")
  /\ ev_log' = Append(ev_log, "plus")
  /\ \/ /\ ~objective.det
        /\ sp_pc' = "done"
        /\ sp_result' = "raised"
        /\ UNCHANGED y_plus
     \/ \E y \in YOf(theta_plus) :
          /\ y_plus' = y
          /\ sp_pc' = "minus"
          /\ UNCHANGED sp_result
  /\ UNCHANGED <<statefile, n_iter, theta, saved_theta, theta_diff, delta,
                 theta_plus, theta_minus, y_minus, fval, rmess, n_cb,
                 resumed, qghost>>
  /\ SpsaFrame

\* y_minus = loss(theta_minus), then lines 139-152: the clamped difference,
\* the update of theta, its clipping, the new metric, n_iter += 1.
SpsaEvalMinus ==
  /\ sp_pc = "minus"
  /\ n_fev' = loss_fev(n_fev, "minus")
  /\ ev_log' = Append(ev_log, "minus")
  /\ \/ /\ ~objective.det
        /\ sp_pc' = "done"
        /\ sp_result' = "raised"
        /\ UNCHANGED <<y_minus, theta, theta_diff, n_iter>>
     \/ \E y \in YOf(theta_minus) :
          LET y_diff == Clamp(y_plus - y, maxgrad)
              th == Clip(theta - (a_par * y_diff * delta) \div (2 * c_par),
                         bounds)
          IN /\ y_minus' = y
             /\ theta' = th
             /\ theta_diff' = Metric(saved_theta, th)
             /\ n_iter' = n_iter + 1
             /\ sp_pc' = "callback"
             /\ UNCHANGED sp_result
  /\ UNCHANGED <<statefile, saved_theta, delta, theta_plus, theta_minus,
                 y_plus, fval, rmess, n_cb, resumed, qghost>>
  /\ SpsaFrame

\* if callback: callback(saved_theta, avg_loss); the callback may raise
SpsaCallback ==
  /\ sp_pc = "callback"
  /\ IF callback
       THEN /\ n_cb' = n_cb + 1
            /\ cb_last' =
                 [x |-> CallbackArgs(saved_theta, theta, y_plus, y_minus).x,
                  sum |-> CallbackArgs(saved_theta, theta, y_plus, y_minus).sum,
                  at_iter |-> n_iter,
                  at_fev |-> n_fev,
                  on_file |-> statefile.n_iter]
            /\ \/ sp_pc' = "save" /\ UNCHANGED sp_result
               \/ ~objective.det /\ sp_pc' = "done" /\ sp_result' = "raised"
       ELSE /\ sp_pc' = "save"
            /\ UNCHANGED <<n_cb, sp_result, cb_last>>
  /\ UNCHANGED <<statefile, n_fev, n_iter, theta, saved_theta, theta_diff,
                 delta, theta_plus, theta_minus, y_plus, y_minus, fval,
                 rmess, ev_log, resumed, n_iter0, n_fev0, theta_begin>>
  /\ SpsaFrame

\* open(savestate, 'w') empties the file
SpsaSaveOpen ==
  /\ sp_pc = "save"
  /\ IF savestate
       THEN statefile' = Truncated /\ sp_pc' = "dump"
       ELSE sp_pc' = "test" /\ UNCHANGED statefile
  /\ UNCHANGED <<n_fev, n_iter, theta, saved_theta, theta_diff, delta,
                 theta_plus, theta_minus, y_plus, y_minus, fval, rmess, n_cb,
                 ev_log, resumed, sp_result, qghost>>
  /\ SpsaFrame

\* json.dump of the four values, and the file is closed
SpsaSaveDump ==
  /\ sp_pc = "dump"
  /\ statefile' = Checkpoint(n_fev, n_iter, saved_theta, theta)
  /\ sp_pc' = "test"
  /\ UNCHANGED <<n_fev, n_iter, theta, saved_theta, theta_diff, delta,
                 theta_plus, theta_minus, y_plus, y_minus, fval, rmess, n_cb,
                 ev_log, resumed, sp_result, qghost>>
  /\ SpsaFrame

\* fval = loss(theta), the OptimizeResult, the removal of the state file
SpsaFinal ==
  /\ sp_pc = "final"
  /\ n_fev' = loss_fev(n_fev, "final")
  /\ ev_log' = Append(ev_log, "final")
  /\ sp_pc' = "done"
  /\ \/ /\ ~objective.det
        /\ sp_result' = "raised"
        /\ UNCHANGED <<fval, statefile>>
     \/ \E y \in YOf(theta) :
          /\ fval' = y
          /\ sp_result' = "returned"
          /\ statefile' = AfterReturn(savestate, statefile)
  /\ UNCHANGED <<n_iter, theta, saved_theta, theta_diff, delta, theta_plus,
                 theta_minus, y_plus, y_minus, rmess, n_cb, resumed, qghost>>
  /\ SpsaFrame

\* The process is stopped from outside (a signal, a power cut) anywhere after
\* the set-up: nothing more of the run happens, the file stays as it is.
SpsaInterrupt ==
  /\ sp_pc \in {"test", "plus", "minus", "callback", "save", "dump", "final"}
  /\ sp_pc' = "done"
  /\ sp_result' = "killed"
  /\ UNCHANGED <<statefile, n_fev, n_iter, theta, saved_theta, theta_diff,
                 delta, theta_plus, theta_minus, y_plus, y_minus, fval,
                 rmess, n_cb, ev_log, resumed, qghost>>
  /\ SpsaFrame

\* SPSA is called again with the same arguments after a stopped run: fresh
\* locals, the state file as the stopped run left it.
SpsaRestart ==
  /\ sp_pc = "done"
  /\ sp_result = "killed"
  /\ runs < MaxRuns
  /\ runs' = runs + 1
  /\ sp_pc' = "start"
  /\ sp_result' = "none"
  /\ n_fev' = 0
  /\ n_iter' = 0
  /\ theta' = 0
  /\ saved_theta' = 0
  /\ theta_diff' = NoMetric
  /\ delta' = 1
  /\ theta_plus' = 0
  /\ theta_minus' = 0
  /\ y_plus' = 0
  /\ y_minus' = 0
  /\ fval' = 0
  /\ rmess' = "none"
  /\ n_cb' = 0
  /\ ev_log' = <<>>
  /\ resumed' = FALSE
  /\ n_iter0' = 0
  /\ n_fev0' = 0
  /\ theta_begin' = 0
  /\ cb_last' = NoCall
  /\ UNCHANGED <<mvars, ovars, gvars, kvars, cvars, qconf, statefile>>

\* The OptimizeResult of a returned call: x, fun, nit, nfev, message
Result ==
  [x |-> theta, fun |-> fval, nit |-> n_iter, nfev |-> n_fev,
   message |-> rmess]

\* What one call that nothing stops returns for the fixed objective and the
\* fixed draws, from theta th with saved_theta st, n_iter ni, n_fev nf and
\* metric td: the loop of lines 124-169 and the final evaluation.
RECURSIVE RunFrom(_, _, _, _, _)
RunFrom(th, st, ni, nf, td) ==
  IF LoopTest(td, xtol, ni, maxiter)
    THEN LET d == deltas[ni]
             tp == Clip(th + c_par * d, bounds)
             tm == Clip(th - c_par * d, bounds)
             y_diff == Clamp(F(objective.c, tp) - F(objective.c, tm), maxgrad)
             th2 == Clip(th - (a_par * y_diff * d) \div (2 * c_par), bounds)
         IN RunFrom(th2, th, ni + 1, nf + 2, Metric(th, th2))
    ELSE [x |-> th, fun |-> F(objective.c, th), nit |-> ni, nfev |-> nf + 1,
          message |-> IF AtMost(td, xtol) THEN "tolerance"
                      ELSE IF ni >= maxiter THEN "maxiter"
                      ELSE "warning"]

\* the call from scratch: lines 96-105 and 122-123
Uninterrupted ==
  LET st == IF x0 = 0 THEN 10 ELSE x0 * 100
  IN RunFrom(x0, st, start_iter, 0, Metric(st, x0))

\* ------------------------------------------------------------ grid_search
\* Python's None among the objective values and among the candidates
None == 0 - 1
ResVals == 0 .. MaxRes
Cands == 1 .. NCand
Grids == UNION { [1 .. n -> Cands] : n \in 1 .. MaxGrid }
NoOpt == [x |-> None, fun |-> None, nfev |-> 0, success |-> FALSE]

\* res < best_res: with best_res None, Python 3 raises TypeError and
\* Python 2 orders None below every number
Less(res, best, interp) ==
  IF best = None
    THEN (IF interp = "py3" THEN "typeerror" ELSE "false")
    ELSE (IF res < best THEN "true" ELSE "false")

GridInit ==
  /\ g_interp \in {"py2", "py3"}
  /\ g_x0 \in Grids
  /\ g_callback \in BOOLEAN
  /\ g_pc = "eval"
  /\ g_i = 1
  /\ g_res = None
  /\ g_best_res = None
  /\ g_best_pars = None
  /\ g_nfev = 0
  /\ g_log = <<>>
  /\ g_opt = NoOpt
  /\ g_result = "none"

\* no grid search
GridNone ==
  /\ g_interp = "py3"
  /\ g_x0 = <<>>
  /\ g_callback = FALSE
  /\ g_pc = "off"
  /\ g_i = 1
  /\ g_res = None
  /\ g_best_res = None
  /\ g_best_pars = None
  /\ g_nfev = 0
  /\ g_log = <<>>
  /\ g_opt = NoOpt
  /\ g_result = "none"

GridFrame ==
  UNCHANGED <<mvars, ovars, qvars, kvars, cvars, g_interp, g_x0, g_callback>>

\* res = func(ix, *args); nfev += 1; the comparison and the two assignments
GridEval ==
  /\ g_pc = "eval"
  /\ \/ /\ g_pc' = "done"
        /\ g_result' = "raised"
        /\ UNCHANGED <<g_res, g_nfev, g_log, g_best_res, g_best_pars>>
     \/ \E r \in ResVals \cup {None} :
          LET lt == IF r = None THEN "false"
                    ELSE Less(r, g_best_res, g_interp)
          IN /\ g_res' = r
             /\ g_nfev' = g_nfev + 1
             /\ g_log' = Append(g_log, [ev |-> "eval", x |-> g_x0[g_i],
                                        res |-> r])
             /\ g_best_res' = IF lt = "true" THEN r ELSE g_best_res
             /\ g_best_pars' = IF lt = "true" THEN g_x0[g_i]
                               ELSE g_best_pars
             /\ g_pc' = IF lt = "typeerror" THEN "done" ELSE "callback"
             /\ g_result' = IF lt = "typeerror" THEN "typeerror"
                            ELSE g_result
  /\ UNCHANGED <<g_i, g_opt>>
  /\ GridFrame

\* if callback: callback(ix, res); then the next candidate, or the loop ends
GridCallback ==
  /\ g_pc = "callback"
  /\ g_log' = IF g_callback
                THEN Append(g_log, [ev |-> "cb", x |-> g_x0[g_i],
                                    res |-> g_res])
                ELSE g_log
  /\ \/ /\ g_callback
        /\ g_pc' = "done"
        /\ g_result' = "raised"
        /\ UNCHANGED g_i
     \/ /\ g_i' = g_i + 1
        /\ g_pc' = IF g_i < Len(g_x0) THEN "eval" ELSE "return"
        /\ UNCHANGED g_result
  /\ UNCHANGED <<g_res, g_best_res, g_best_pars, g_nfev, g_opt>>
  /\ GridFrame

\* the OptimizeResult is built and returned
GridReturn ==
  /\ g_pc = "return"
  /\ g_opt' = [x |-> g_best_pars, fun |-> g_best_res, nfev |-> g_nfev,
               success |-> TRUE]
  /\ g_pc' = "done"
  /\ g_result' = "returned"
  /\ UNCHANGED <<g_i, g_res, g_best_res, g_best_pars, g_nfev, g_log>>
  /\ GridFrame

\* ------------------------------------------- ProducerManager.__init__
\* Producer.__init__: the class of managers/producer.py raises
\* NotImplementedError in its first statement; the one of coep/producer.py
\* stores its arguments
ProducerInitRaises_Never(module) == FALSE

ProducerInitRaises(module) == module = "managers"

\* r = int.from_bytes(os.urandom(4), sys.byteorder) if set_random else None
Seeds(set_random) == IF set_random THEN 1 .. MaxSeed ELSE {0}

CtorInit ==
  /\ k_module \in {"managers", "legacy"}
  /\ k_n \in 0 .. MaxProc
  /\ k_set_random \in BOOLEAN
  /\ k_pc = "new"
  /\ k_runnable = FALSE
  /\ k_plist = <<>>
  /\ k_started = 0
  /\ k_result = "none"

\* no manager under construction
CtorNone ==
  /\ k_module = "managers"
  /\ k_n = 0
  /\ k_set_random = FALSE
  /\ k_pc = "off"
  /\ k_runnable = FALSE
  /\ k_plist = <<>>
  /\ k_started = 0
  /\ k_result = "none"

CtorFrame == UNCHANGED <<mvars, ovars, qvars, gvars, cvars, k_module, k_n,
                         k_set_random>>

\* up to the for loop: _runnable = True, the Manager, its queues and
\* conditions, the empty plist
CtorBegin ==
  /\ k_pc = "new"
  /\ k_runnable' = TRUE
  /\ k_pc' = "loop"
  /\ UNCHANGED <<k_plist, k_started, k_result>>
  /\ CtorFrame

\* one pass of `for _ in range(n_proc)`: the seed, Producer(...), append,
\* start
CtorProducer ==
  /\ k_pc = "loop"
  /\ Len(k_plist) < k_n
  /\ \E r \in Seeds(k_set_random) :
       IF ProducerInitRaises(k_module)
         THEN /\ k_pc' = "done"
              /\ k_result' = "raised"
              /\ UNCHANGED <<k_plist, k_started>>
         ELSE /\ k_plist' = Append(k_plist, r)
              /\ k_started' = k_started + 1
              /\ UNCHANGED <<k_pc, k_result>>
  /\ UNCHANGED k_runnable
  /\ CtorFrame

\* the loop is exhausted: the constructor returns the manager
CtorEnd ==
  /\ k_pc = "loop"
  /\ Len(k_plist) = k_n
  /\ k_pc' = "done"
  /\ k_result' = "constructed"
  /\ UNCHANGED <<k_runnable, k_plist, k_started>>
  /\ CtorFrame

\* shut_down, called by the owner of a constructed manager or by __del__
\* when the object of a constructor that raised is collected: the Producers
\* of plist are stopped and _runnable is unset
CtorShutDown ==
  /\ k_pc = "done"
  /\ k_runnable' = FALSE
  /\ k_started' = 0
  /\ k_pc' = "shut"
  /\ UNCHANGED <<k_plist, k_result>>
  /\ CtorFrame

\* ------------------------------------------------- COEP and its database
\* write_optimization_initialization: the group of a new run
NewRun(name) ==
  [name |-> name, FunctionCalls |-> <<>>, CurCall |-> 0,
   SolverResults |-> <<>>, SolveIter |-> 0, OptimizationResult |-> FALSE]

\* f['OptimizationRuns'][str(opt_num)]
HasRun(runs_, name) == \E i \in DOMAIN runs_ : runs_[i].name = name

RunAt(runs_, name) == CHOOSE i \in DOMAIN runs_ : runs_[i].name = name

\* write_function_call without the advance of CurCall
WriteFunctionCall_NoAdvance(run) ==
  [run EXCEPT !.FunctionCalls = Append(@, run.CurCall)]

\* write_function_call: create_group(str(fcall_num)), CurCall = fcall_num + 1
WriteFunctionCall(run) ==
  [run EXCEPT !.FunctionCalls = Append(@, run.CurCall), !.CurCall = @ + 1]

\* write_solver_iteration: create_group(str(sit_num)), SolveIter = sit_num + 1
WriteSolverIteration(run) ==
  [run EXCEPT !.SolverResults = Append(@, run.SolveIter), !.SolveIter = @ + 1]

\* The calls an optimizer makes.  "any" stands for an optimizer that calls
\* the function and the callback in any order; "spsa" for SPSA: two
\* evaluations and one callback per iteration, one evaluation after the loop.
MayEval ==
  IF c_prog = "spsa"
    THEN \/ c_step < 3 * c_n /\ c_step % 3 \in {0, 1}
         \/ c_step = 3 * c_n
    ELSE c_step < MaxEv

MayCallback ==
  IF c_prog = "spsa"
    THEN c_step < 3 * c_n /\ c_step % 3 = 2
    ELSE c_step < MaxEv

MayReturn == c_prog = "spsa" => c_step = 3 * c_n + 1

\* the controller after __init__: with a database (made by make_db, run
\* counter 0) or without one
CoepInit ==
  /\ c_sink \in BOOLEAN
  /\ c_pc = "idle"
  /\ c_call = 0
  /\ c_prog = "any"
  /\ c_n = 0
  /\ c_step = 0
  /\ c_result = "none"
  /\ db_cur = 0
  /\ db_runs = <<>>
  /\ c_evals = 0
  /\ c_completed = 0
  /\ c_cycles = 0
  /\ c_cbs = 0
  /\ c_log = <<>>
  /\ c_groups = <<>>

\* no controller
CoepNone ==
  /\ c_sink = FALSE
  /\ c_pc = "off"
  /\ c_call = 0
  /\ c_prog = "any"
  /\ c_n = 0
  /\ c_step = 0
  /\ c_result = "none"
  /\ db_cur = 0
  /\ db_runs = <<>>
  /\ c_evals = 0
  /\ c_completed = 0
  /\ c_cycles = 0
  /\ c_cbs = 0
  /\ c_log = <<>>
  /\ c_groups = <<>>

CoepFrame == UNCHANGED <<mvars, ovars, qvars, gvars, kvars, cconf>>

\* an exception leaves optimize
CoepAbort ==
  /\ c_pc' = "idle"
  /\ c_result' = "raised"

\* optimize up to the call of the optimizer: with a database, the run group
\* named by the run counter is created; create_group raises when a group of
\* that name exists
CoepOptimize ==
  /\ c_pc = "idle"
  /\ c_call < MaxOptCalls
  /\ c_call' = c_call + 1
  /\ \E prog \in {"any", "spsa"} :
     \E n \in (IF prog = "spsa" THEN 0 .. MaxOptIter ELSE {0}) :
       /\ c_prog' = prog
       /\ c_n' = n
  /\ c_step' = 0
  /\ c_evals' = 0
  /\ c_completed' = 0
  /\ c_cycles' = 0
  /\ c_cbs' = 0
  /\ IF c_sink
       THEN IF HasRun(db_runs, db_cur)
              THEN /\ CoepAbort
                   /\ c_log' = <<>>
                   /\ c_groups' = Append(c_groups, None)
                   /\ UNCHANGED db_runs
              ELSE /\ db_runs' = Append(db_runs, NewRun(db_cur))
                   /\ c_log' = <<"Initialization">>
                   /\ c_groups' = Append(c_groups, db_cur)
                   /\ c_pc' = "solve"
                   /\ c_result' = "none"
       ELSE /\ c_log' = <<>>
            /\ c_groups' = Append(c_groups, None)
            /\ c_pc' = "solve"
            /\ c_result' = "none"
            /\ UNCHANGED db_runs
  /\ UNCHANGED db_cur
  /\ CoepFrame

\* run_step, called by the optimizer: process_all_data and
\* calculate_objective, then the record, then post_cb.  out tells where an
\* exception, if any, comes from.
CoepRunStep ==
  /\ c_pc = "solve"
  /\ MayEval
  /\ \E out \in {"ok", "raise_data", "raise_post_cb"} :
       /\ c_evals' = c_evals + 1
       /\ c_cycles' = c_cycles + 1
       /\ c_completed' = IF out = "raise_data" THEN c_completed
                                                ELSE c_completed + 1
       /\ IF c_sink /\ out # "raise_data"
            THEN /\ db_runs' =
                      [db_runs EXCEPT ![RunAt(db_runs, db_cur)] =
                                         WriteFunctionCall(@)]
                 /\ c_log' = Append(c_log, "FunctionCalls")
            ELSE UNCHANGED <<db_runs, c_log>>
       /\ IF out = "ok"
            THEN /\ c_step' = c_step + 1
                 /\ UNCHANGED <<c_pc, c_result>>
            ELSE /\ CoepAbort
                 /\ UNCHANGED c_step
  /\ UNCHANGED <<c_call, c_prog, c_n, db_cur, c_cbs, c_groups>>
  /\ CoepFrame

\* _solver_cb, called by the optimizer with the parameters and the value
CoepSolverCb ==
  /\ c_pc = "solve"
  /\ MayCallback
  /\ c_cbs' = c_cbs + 1
  /\ c_step' = c_step + 1
  /\ IF c_sink
       THEN /\ db_runs' =
                 [db_runs EXCEPT ![RunAt(db_runs, db_cur)] =
                                    WriteSolverIteration(@)]
            /\ c_log' = Append(c_log, "SolverResults")
       ELSE UNCHANGED <<db_runs, c_log>>
  /\ UNCHANGED <<c_pc, c_call, c_prog, c_n, c_result, db_cur, c_evals,
                 c_completed, c_cycles, c_groups>>
  /\ CoepFrame

\* the optimizer raises by itself (an assertion of SPSA, a bad option)
CoepSolverRaise ==
  /\ c_pc = "solve"
  /\ CoepAbort
  /\ UNCHANGED <<c_call, c_prog, c_n, c_step, db_cur, db_runs, cghost>>
  /\ CoepFrame

\* the optimizer returns its result to optimize
CoepSolverReturn ==
  /\ c_pc = "solve"
  /\ MayReturn
  /\ IF c_sink
       THEN /\ c_pc' = "result"
            /\ UNCHANGED c_result
       ELSE /\ c_pc' = "idle"
            /\ c_result' = "returned"
  /\ UNCHANGED <<c_call, c_prog, c_n, c_step, db_cur, db_runs, cghost>>
  /\ CoepFrame

\* write_optimization_result, first part: the fields of OptimizationResult
CoepWriteResult ==
  /\ c_pc = "result"
  /\ db_runs' = [db_runs EXCEPT ![RunAt(db_runs, db_cur)].OptimizationResult
                                   = TRUE]
  /\ c_log' = Append(c_log, "OptimizationResult")
  /\ c_pc' = "advance"
  /\ UNCHANGED <<c_call, c_prog, c_n, c_step, c_result, db_cur, c_evals,
                 c_completed, c_cycles, c_cbs, c_groups>>
  /\ CoepFrame

\* write_optimization_result, last statement: g_on[...] = opt_num + 1; then
\* optimize returns
CoepAdvance ==
  /\ c_pc = "advance"
  /\ db_cur' = db_cur + 1
  /\ c_log' = Append(c_log, "CurrentOptRun")
  /\ c_pc' = "idle"
  /\ c_result' = "returned"
  /\ UNCHANGED <<c_call, c_prog, c_n, c_step, db_runs, c_evals, c_completed,
                 c_cycles, c_cbs, c_groups>>
  /\ CoepFrame

Init ==
  /\ behave \in [Items -> Kinds]
  /\ transientLeft = MaxTransient
  /\ DaskInit
  /\ SeqInit
  /\ PoolInit
  /\ OrchNone
  /\ SpsaNone
  /\ GridNone
  /\ CtorNone
  /\ CoepNone

NextDask == DaskRunBatch \/ DaskRound \/ DaskReturn \/ DaskShutDown

\* The pool's variables are inert in the specifications of the other two
\* backends; they start there with a rebuildable exception class.
InitNoPool == Init /\ rebuildable

SpecDask == InitNoPool /\ [][NextDask]_vars

NextSeq == SeqRunBatch \/ SeqEval \/ SeqReturn \/ SeqDone \/ SeqShutDown

SpecSeq == InitNoPool /\ [][NextSeq]_vars

NextPool ==
  \/ \E w \in Workers :
        \/ ProducerTop(w)
        \/ ProducerAcquire(w)
        \/ ProducerEmpty(w)
        \/ ProducerGet(w)
        \/ ProducerRun(w)
        \/ ProducerOutAcquire(w)
        \/ ProducerOutPut(w)
        \/ ProducerErrAcquire(w)
        \/ ProducerErrPut(w)
  \/ PoolRunBatch
  \/ PoolEnqueue
  \/ PoolDrain
  \/ PoolErrors
  \/ PoolReturn
  \/ PoolShutDown

SpecPool == Init /\ [][NextPool]_vars

\* The orchestrator with the backend it created; the managers' own variables
\* are inert here.
InitOrch ==
  /\ behave = [v \in Items |-> "ok"]
  /\ transientLeft = MaxTransient
  /\ DaskInit
  /\ SeqInit
  /\ PoolInit
  /\ rebuildable
  /\ OrchInit
  /\ SpsaNone
  /\ GridNone
  /\ CtorNone
  /\ CoepNone

NextOrch ==
  \/ OrchEnter
  \/ OrchCall
  \/ OrchTransform
  \/ OrchBuild
  \/ OrchDispatch
  \/ OrchStrip
  \/ OrchReturn
  \/ OrchShutDown
  \/ OrchExit

SpecOrch == InitOrch /\ [][NextOrch]_vars

\* One call of SPSA; the managers and the orchestrator are inert here.
InitSPSA ==
  /\ behave = [v \in Items |-> "ok"]
  /\ transientLeft = MaxTransient
  /\ DaskInit
  /\ SeqInit
  /\ PoolInit
  /\ rebuildable
  /\ OrchNone
  /\ SpsaInit
  /\ GridNone
  /\ CtorNone
  /\ CoepNone

NextSPSA ==
  \/ SpsaStart
  \/ SpsaTest
  \/ SpsaEvalPlus
  \/ SpsaEvalMinus
  \/ SpsaCallback
  \/ SpsaSaveOpen
  \/ SpsaSaveDump
  \/ SpsaFinal

SpecSPSA == InitSPSA /\ [][NextSPSA]_vars

\* The call runs on: no step of it waits for anything outside it, so a call
\* that is not over takes its next step.
InitSPSALive ==
  /\ InitSPSA
  /\ bounds = NoBounds
  /\ ~maxgrad.has
  /\ ~callback

SpecSPSALive == InitSPSALive /\ [][NextSPSA]_vars /\ WF_vars(NextSPSA)

\* Calls of SPSA with checkpointing on one state file, for a fixed objective
\* and fixed draws: a call may be stopped from outside and made again.
InitResume ==
  /\ behave = [v \in Items |-> "ok"]
  /\ transientLeft = MaxTransient
  /\ DaskInit
  /\ SeqInit
  /\ PoolInit
  /\ rebuildable
  /\ OrchNone
  /\ x0 \in X0s
  /\ start_iter \in 0 .. MaxStart
  /\ maxiter \in 0 .. MaxIter
  /\ xtol \in 0 .. 1
  /\ bounds \in {NoBounds, [has |-> TRUE, shape_ok |-> TRUE, lo |-> 0,
                             hi |-> MaxX0]}
  /\ maxgrad \in {g \in MaxgradSet : g.has => g.val > 0}
  /\ savestate = TRUE
  /\ callback \in BOOLEAN
  /\ statefile = Absent
  /\ objective \in FixedObjectives
  /\ deltas \in DeltaSeqs
  /\ sp_pc = "start"
  /\ n_fev = 0
  /\ n_iter = 0
  /\ theta = 0
  /\ saved_theta = 0
  /\ theta_diff = NoMetric
  /\ delta = 1
  /\ theta_plus = 0
  /\ theta_minus = 0
  /\ y_plus = 0
  /\ y_minus = 0
  /\ fval = 0
  /\ rmess = "none"
  /\ n_cb = 0
  /\ ev_log = <<>>
  /\ resumed = FALSE
  /\ sp_result = "none"
  /\ runs = 1
  /\ n_iter0 = 0
  /\ n_fev0 = 0
  /\ theta_begin = 0
  /\ cb_last = NoCall
  /\ GridNone
  /\ CtorNone
  /\ CoepNone

NextResume == NextSPSA \/ SpsaInterrupt \/ SpsaRestart

SpecResume == InitResume /\ [][NextResume]_vars

\* One call of grid_search; everything else is inert here.
InitGrid ==
  /\ behave = [v \in Items |-> "ok"]
  /\ transientLeft = MaxTransient
  /\ DaskInit
  /\ SeqInit
  /\ PoolInit
  /\ rebuildable
  /\ OrchNone
  /\ SpsaNone
  /\ GridInit
  /\ CtorNone
  /\ CoepNone

NextGrid == GridEval \/ GridCallback \/ GridReturn

SpecGrid == InitGrid /\ [][NextGrid]_vars

\* One construction of a ProducerManager; everything else is inert here.
InitCtor ==
  /\ behave = [v \in Items |-> "ok"]
  /\ transientLeft = MaxTransient
  /\ DaskInit
  /\ SeqInit
  /\ PoolInit
  /\ rebuildable
  /\ OrchNone
  /\ SpsaNone
  /\ GridNone
  /\ CtorInit
  /\ CoepNone

NextCtor == CtorBegin \/ CtorProducer \/ CtorEnd \/ CtorShutDown

SpecCtor == InitCtor /\ [][NextCtor]_vars

\* One COEP controller and its optimize calls; everything else is inert.
InitCoep ==
  /\ behave = [v \in Items |-> "ok"]
  /\ transientLeft = MaxTransient
  /\ DaskInit
  /\ SeqInit
  /\ PoolInit
  /\ rebuildable
  /\ OrchNone
  /\ SpsaNone
  /\ GridNone
  /\ CtorNone
  /\ CoepInit

NextCoep ==
  \/ CoepOptimize
  \/ CoepRunStep
  \/ CoepSolverCb
  \/ CoepSolverRaise
  \/ CoepSolverReturn
  \/ CoepWriteResult
  \/ CoepAdvance

SpecCoep == InitCoep /\ [][NextCoep]_vars

\* the run group the current optimize call created, if any
OwnRun == db_runs[RunAt(db_runs, c_groups[c_call])]

HasOwnRun == c_call >= 1 /\ c_groups[c_call] # None

\* records of the current optimize call
FunctionCallRecords == IF HasOwnRun THEN OwnRun.FunctionCalls ELSE <<>>

SolverRecords == IF HasOwnRun THEN OwnRun.SolverResults ELSE <<>>

\* names 0, 1, 2, ... in order
NumberedFromZero(names) == \A i \in DOMAIN names : names[i] = i - 1

\* ------------------------------------------------------------------ claims
IsBad(f) ==
  \/ f.status \in {"error", "pending"}
  \/ f.status = "finished" /\ f.result.kind = "exception"

IsResolved(f) == f.status = "finished" /\ f.result.kind = "value"

ResolvedEntries(futs) ==
  LET ok == SelectSeq(futs, IsResolved)
  IN [i \in DOMAIN ok |-> Entry(ok[i].item, ok[i].result)]

\* C1: with retry_failures and without hard_error, after every resubmission
\* each submitted item (value-equal items counted as often as they were
\* submitted) is either resolved exactly once in ret or resubmitted exactly
\* once: nothing resolved is resubmitted or listed twice, nothing unresolved
\* is left out.
C1_ResubmitExactlyTheUnresolved ==
  (d_pc = "wait" /\ d_rounds > 0 /\ d_retry /\ ~d_hard) =>
    \A v \in Items :
      Count(v, ItemsOf(d_ret)) + Count(v, ItemsOf(d_rlist))
        = Count(v, d_params)

\* C2: a retrying, soft-error run_batch over items that only fail transiently
\* (task error or timeout, success on a later submission) returns exactly one
\* entry per submitted item, each with the value of a successful run.
C2_RetryYieldsCompleteResult ==
  (/\ d_result = "returned" /\ d_retry /\ ~d_hard
   /\ \A i \in DOMAIN d_params : behave[d_params[i]] = "ok") =>
    /\ Len(d_ret) = Len(d_params)
    /\ \A v \in Items : Count(v, ItemsOf(d_ret)) = Count(v, d_params)
    /\ \A i \in DOMAIN d_ret : d_ret[i].out = Value(d_ret[i].item)

C4_SoftResultHasBatchLength ==
  (d_result = "returned" /\ ~d_hard /\ ~d_retry) => Len(d_ret) = Len(d_params)

\* C5: once the manager is shut down no item is evaluated any more (stated
\* for the sequential backend).
C5_ClosedEvaluatesNothing ==
  [][~seq_runnable => s_evals' <= s_evals]_vars

\* C6: however often shut_down is called, the cluster is closed at most once
\* (stated for the distributed backend).
C6_ClusterReleasedOnce == clusterCloses <= 1

\* C7: with hard_error=false run_batch never ends by raising (stated for the
\* sequential backend).
C7_SoftErrorNeverRaises == s_result = "raised" => s_hard

\* C8: with hard_error=true, a classification that meets an errored, pending
\* or error-valued task raises in that same (first) round, whatever
\* retry_failures is: nothing is returned and nothing is resubmitted; and
\* run_batch raises only then.
C8_HardErrorRaisesAndNeverResubmits ==
  /\ (d_hard /\ \E i \in DOMAIN d_seen : IsBad(d_seen[i])) =>
       /\ d_result = "raised"
       /\ d_pc = "done"
       /\ d_rounds = 1
       /\ d_nsubmit = Len(d_params)
  /\ d_result = "raised" =>
       /\ d_hard
       /\ \E i \in DOMAIN d_seen : IsBad(d_seen[i])

C8_Witness ==
  /\ d_hard /\ d_retry /\ d_result = "raised"
  /\ \E i, j \in DOMAIN d_seen :
       i < j /\ IsResolved(d_seen[i]) /\ d_seen[j].status = "pending"

\* C9: every enqueued item that the dispatcher has not collected yet is in
\* exactly one place: waiting in the input queue, held by one worker that is
\* processing it, or as one entry of the output or of the error queue.
InFlight(v) ==
  Cardinality({w \in Workers :
     /\ w_params[w] = v
     /\ w_pc[w] \in {"run", "out_acquire", "out_put", "err_acquire",
                     "err_put"}})

C9_EveryItemExactlyOnce ==
  \A v \in Items :
    outstanding[v] = Count(v, qin) + InFlight(v)
                       + Count(v, ItemsOf(qout)) + Count(v, ItemsOf(qerr))

\* C10: a local-pool run_batch raises only under hard_error, and then the
\* first entry of the error queue with nothing collected after it; under
\* hard_error=false it returns when the result count equals the batch size,
\* with a (item, None) entry for every failed item.
C10_PoolErrorModes ==
  /\ p_result = "raised" => p_hard /\ p_err.out.kind = "exception"
  /\ p_result = "returned" =>
       /\ Len(p_rlist) = Len(p_params)
       /\ ~p_hard =>
            \A i \in DOMAIN p_params :
              behave[p_params[i]] = "raise" =>
                \E j \in DOMAIN p_rlist :
                  p_rlist[j] = Entry(p_params[i], NoneValue)

\* C11: a dispatcher inside run_batch is never left waiting for a queue guard
\* that can no longer be released, i.e. one held by a worker whose run() has
\* ended (a necessary condition of "run_batch eventually returns or raises").
C11_DispatcherNeverBlockedForGood ==
  p_pc = "errors" =>
    ~(cerr.by = "worker" /\ w_pc[cerr.id] \in {"crashed", "exited"})

\* C12: a worker whose stop flag is set takes no further item from the input
\* queue.
C12_NoPopAfterStop ==
  [][\A w \in Workers :
       w_stop[w] => ~(w_pc[w] = "get" /\ w_pc'[w] = "run")]_vars

\* C19: when run_batch has returned or raised, nothing of its batch is left
\* in the backend: no queued item, no item in a worker's hands, no uncollected
\* result or error (stated for the local pool).
C19_NothingOutstandingAfterRunBatch ==
  p_pc = "done" => \A v \in Items : outstanding[v] = 0

\* SingleThreadManager.run_batch as one function of its inputs, for a
\* deterministic user function and retry_failures = False: the for loop
\* folded over the list with the same body as SeqEval.
RECURSIVE SeqLoop(_, _, _, _)
SeqLoop(ps, i, ret, hard) ==
  IF i > Len(ps) THEN [result |-> "returned", ret |-> ret]
  ELSE LET r == function_maker(ps[i], behave[ps[i]])
           act == SeqBody(r, hard, FALSE)
       IN IF act = "raise" THEN [result |-> "raised", ret |-> ret]
          ELSE IF act = "append"
                 THEN SeqLoop(ps, i + 1, Append(ret, Entry(r.ps, r.res)), hard)
          ELSE SeqLoop(ps, i + 1, ret, hard)

Range(s) == {s[i] : i \in DOMAIN s}

\* C13: when the pool's run_batch returns and the sequential run_batch of the
\* same batch, function and hard_error returns too, both hold the same set of
\* (item, outcome) entries.
C13_PoolEqualsSequential ==
  (p_pc = "done" /\ p_result = "returned"
     /\ SeqLoop(p_params, 1, <<>>, p_hard).result = "returned")
    => Range(p_rlist) = Range(SeqLoop(p_params, 1, <<>>, p_hard).ret)

\* a subsequence: s can be had from t by leaving elements out
RECURSIVE IsSubSeq(_, _)
IsSubSeq(s, t) ==
  IF s = <<>> THEN TRUE
  ELSE IF t = <<>> THEN FALSE
  ELSE IF Head(s) = Head(t) THEN IsSubSeq(Tail(s), Tail(t))
  ELSE IsSubSeq(s, Tail(t))

Appended(log) == SelectSeq(log, LAMBDA e : e.act = "append")

\* C14 as stated: the returned list holds its outcomes in submission order,
\* i.e. its items are the submitted batch with some items left out.
C14_ReturnedInSubmissionOrder ==
  (s_pc = "done" /\ s_result = "returned") => IsSubSeq(ItemsOf(s_ret), s_orig)

\* C14, amended: items are evaluated one at a time in the order of the list
\* the loop walks (the batch, then what retry_failures appended to it); the
\* returned list holds the appended outcomes in evaluation order, which is
\* submission order when retry_failures is off; the first evaluation that
\* raises ends the run, and under hard_error every failing evaluation raises.
C14_EvaluationOrder ==
  s_pc \in {"loop", "done"} =>
    /\ Len(s_log) <= Len(s_params)
    /\ ItemsOf(s_log) = SubSeq(s_params, 1, Len(s_log))
    /\ s_evals = Len(s_log)
    /\ ItemsOf(s_ret) = ItemsOf(Appended(s_log))
    /\ SubSeq(s_params, 1, Len(s_orig)) = s_orig
    /\ ~s_retry => /\ s_params = s_orig
                   /\ IsSubSeq(ItemsOf(s_ret), s_orig)
    /\ \A i \in DOMAIN s_log :
         /\ s_log[i].act = "raise" => (i = Len(s_log) /\ s_result = "raised")
         /\ s_hard => s_log[i].act \in {"append", "raise"}
    /\ s_result = "raised" =>
         (s_log # <<>> /\ s_log[Len(s_log)].act = "raise")

\* a retry run that returned every item of a two-item batch, the retried
\* first item after the second
C14_Witness ==
  /\ s_pc = "done" /\ s_result = "returned" /\ s_retry
  /\ Len(s_orig) = 2 /\ s_orig[1] # s_orig[2]
  /\ ItemsOf(s_ret) = <<s_orig[2], s_orig[1]>>
  /\ s_log[1].act = "retry"

\* C15: a call of process_all_data whose fitting_params has another length
\* than the name list fails at once on the assertion: no transform is
\* applied, no batch is built, the backend is not called and its state is
\* what it was.
C15_MalformedFailsBeforeAnyWork ==
  [][(o_pc = "idle" /\ o_pc' # "idle" /\ Len(o_arg') # Len(o_pnames))
       => /\ o_pc' = "done"
          /\ o_result' = "assert"
          /\ o_fit' = o_arg'
          /\ o_ntransform' = 0
          /\ o_ndispatch' = 0
          /\ o_batch' = <<>>
          /\ o_runnable' = o_runnable]_vars

\* a malformed call on an orchestrator that has a transform and instances
C15_Witness ==
  /\ o_pc = "done" /\ o_result = "assert"
  /\ Len(o_arg) # Len(o_pnames)
  /\ o_transform
  /\ o_instances # <<>>
  /\ o_runnable

\* C16: no returned entry's context has a key that is a fit-parameter name or
\* an auxiliary-parameter name.
C16_StrippedOfFitAndAuxNames ==
  (o_pc = "done" /\ o_result = "returned") =>
    \A i \in DOMAIN o_ret : \A k \in DOMAIN o_ret[i].item :
      /\ \A j \in DOMAIN o_pnames : o_pnames[j] # k
      /\ k \notin DOMAIN o_aux

\* entries were returned whose work items held a bound fit parameter and an
\* auxiliary parameter under another name
C16_Witness ==
  /\ o_pc = "done" /\ o_result = "returned"
  /\ o_ret # <<>>
  /\ \E j \in DOMAIN o_pnames : o_pnames[j] \in DOMAIN o_processed[1].item
  /\ \E k \in DOMAIN o_aux : \A j \in DOMAIN o_pnames : o_pnames[j] # k

\* C17: the batch has one work item per instance, in order; each holds the
\* auxiliary parameters, else the bound fit parameters, else the instance's
\* own values; the instance set is what the constructor was given.
C17_OneItemPerInstance ==
  (o_pc \in {"dispatch", "strip"} \/ (o_pc = "done" /\ o_ndispatch > 0)) =>
    LET bound == ZipDict(o_pnames, o_fit)
    IN /\ Len(o_batch) = Len(o_instances)
       /\ o_instances \in InstanceSets
       /\ \A i \in DOMAIN o_batch :
            /\ DOMAIN o_batch[i] =
                 DOMAIN o_instances[i] \cup DOMAIN bound \cup DOMAIN o_aux
            /\ \A k \in DOMAIN o_batch[i] :
                 o_batch[i][k] =
                   IF k \in DOMAIN o_aux THEN o_aux[k]
                   ELSE IF k \in DOMAIN bound THEN bound[k]
                   ELSE o_instances[i][k]

\* a batch of two built from instances one of whose keys is a fit-parameter
\* name, with an auxiliary parameter under a fit-parameter name too
C17_Witness ==
  /\ o_pc = "dispatch"
  /\ Len(o_instances) = 2
  /\ \E j \in DOMAIN o_pnames : o_pnames[j] \in DOMAIN o_instances[1]
  /\ \E j \in DOMAIN o_pnames : o_pnames[j] \in DOMAIN o_aux
  /\ \E k \in DOMAIN o_instances[1] : o_batch[1][k] = o_instances[1][k]

\* C18: once the with block has been left, the backend is closed.
C18_ClosedAfterScope ==
  o_scope = "exited" => ~o_runnable

\* the block was left by an exception raised by process_all_data's backend
C18_Witness ==
  /\ o_scope = "exited"
  /\ o_exit = "exception"
  /\ ~o_runnable

\* C20: a run that did not start from a state file and returns has called
\* func at theta_plus and then at theta_minus in each of its
\* n_iter - start_iter iterations and once more at the final theta:
\* nfev = 2 * (nit - start_iter) + 1.
C20_TwoEvaluationsPerIterationPlusOne ==
  (sp_pc = "done" /\ sp_result = "returned" /\ ~resumed) =>
    /\ n_fev = 2 * (n_iter - start_iter) + 1
    /\ Len(ev_log) = n_fev
    /\ \A i \in DOMAIN ev_log :
         ev_log[i] = IF i = Len(ev_log) THEN "final"
                     ELSE IF i % 2 = 1 THEN "plus"
                     ELSE "minus"

\* a run with start_iter = 1 that made one iteration and returned
C20_Witness ==
  /\ sp_pc = "done" /\ sp_result = "returned" /\ ~resumed
  /\ start_iter = 1
  /\ n_iter = 2
  /\ n_fev = 3

\* C21: a run that returns reports one of the two termination reasons
\* (stated for the runs that start from x0, without a state file).
C21_ReasonIsToleranceOrMaxiter ==
  (sp_pc = "done" /\ sp_result = "returned" /\ ~resumed) =>
    rmess \in {"tolerance", "maxiter"}

\* C22: the convergence metric is never computed with a previous theta of
\* norm zero, i.e. it is never inf or nan (stated for the runs that start
\* from x0, without a state file).
C22_PreviousThetaNonzero ==
  ~resumed => theta_diff.kind \notin {"inf", "nan"}

C24_CallbackOncePerIteration ==
  /\ ~callback => n_cb = 0
  /\ (callback /\ sp_pc # "start") =>
       n_cb = (n_iter - n_iter0) - (IF sp_pc = "callback" THEN 1 ELSE 0)
  /\ n_cb > 0 =>
       /\ cb_last.at_iter = n_iter0 + n_cb
       /\ cb_last.at_fev = n_fev0 + 2 * n_cb
       /\ cb_last.on_file < cb_last.at_iter
  /\ (n_cb > 0 /\ sp_pc \in {"save", "dump"}) =>
       /\ cb_last.x = theta_begin
       /\ cb_last.sum = y_plus + y_minus
       /\ cb_last.at_iter = n_iter
       /\ sp_pc = "save" =>
            (statefile.state = "record" => statefile.n_iter < n_iter)

C24_Witness ==
  /\ callback /\ savestate
  /\ n_cb = 2
  /\ sp_pc = "save"
  /\ theta # theta_begin
  /\ cb_last.x = theta_begin

\* C25: with checkpointing, the state file never holds anything but nothing
\* or one complete record, at every instant of a run and after a stopped
\* one; and when an iteration of this run is complete (the loop is back at
\* its test) the record is the run's n_fev, n_iter, saved_theta and theta.
C25_CheckpointCompleteOrAbsent ==
  savestate =>
    /\ statefile.state \in {"absent", "record"}
    /\ (sp_pc = "test" /\ n_iter > n_iter0) =>
         statefile = Record(n_fev, n_iter, saved_theta, theta)

\* C26: a call made again after a stopped one, and not stopped itself,
\* returns, and returns what the call from scratch that nothing stops
\* returns: x, fun, nit, nfev and message.
C26_ResumedEqualsUninterrupted ==
  (runs > 1 /\ sp_pc = "done" /\ sp_result # "killed") =>
    (sp_result = "returned" /\ Result = Uninterrupted)

\* C27: a call that finds a record in its state file starts from the
\* record's theta, saved_theta, n_iter and n_fev, whatever x0 and start_iter
\* are; a call that returns leaves no state file; a call with checkpointing
\* in which func or the callback raises after an iteration of the call had
\* been completed (its record written) leaves a record.
C27_RecordLoadedRemovedKept ==
  [][/\ (sp_pc = "start" /\ savestate /\ statefile.state = "record") =>
          /\ resumed'
          /\ theta' = statefile.theta
          /\ saved_theta' = statefile.saved_theta
          /\ n_iter' = statefile.n_iter
          /\ n_fev' = statefile.n_fev
     /\ sp_result' = "returned" => statefile'.state = "absent"
     /\ (/\ savestate
         /\ sp_result = "none" /\ sp_result' = "raised"
         /\ n_iter > n_iter0 + (IF sp_pc = "callback" THEN 1 ELSE 0)) =>
          statefile'.state = "record"]_vars

C27_Witness ==
  /\ savestate /\ resumed
  /\ sp_pc = "done" /\ sp_result = "returned"
  /\ n_iter0 # start_iter
  /\ n_iter > n_iter0
  /\ statefile.state = "absent"

\* C28: when a call with checkpointing has ended with an exception, the
\* iterations whose update of theta was applied (n_iter) exceed the n_iter
\* of the record in the state file by at most one; when there is no record
\* the count the call started with stands for it.
C28_AtMostOneIterationLost ==
  (savestate /\ sp_pc = "done" /\ sp_result = "raised") =>
    LET kept == IF statefile.state = "record" THEN statefile.n_iter
                ELSE n_iter0
    IN n_iter - kept \in {0, 1}

C28_Witness ==
  /\ savestate /\ ~resumed
  /\ sp_pc = "done" /\ sp_result = "raised"
  /\ statefile.state = "record"
  /\ statefile.n_iter > n_iter0
  /\ n_iter = statefile.n_iter + 1

\* the evaluations that returned, in order, and their numeric results
GridEvals == SelectSeq(g_log, LAMBDA e : e.ev = "eval")
GridVals == {GridEvals[i].res : i \in 1 .. Len(GridEvals)} \ {None}
Lowest(S) == CHOOSE v \in S : \A w \in S : v <= w
FirstAt(v) ==
  CHOOSE i \in 1 .. Len(GridEvals) :
    /\ GridEvals[i].res = v
    /\ \A j \in 1 .. i - 1 : GridEvals[j].res # v

\* C29: a grid search in which func and the callback raised nothing, and
\* func gave a number for at least one candidate, returns; fun is the lowest
\* of the numbers and x the first candidate in the list that had it.
C29_ReturnsFirstMinimum ==
  (g_pc = "done" /\ g_result # "raised" /\ GridVals # {}) =>
    /\ g_result = "returned"
    /\ g_opt.fun = Lowest(GridVals)
    /\ g_opt.x = GridEvals[FirstAt(Lowest(GridVals))].x

\* C30: a grid search in which func and the callback raised nothing returns;
\* func was called once for each candidate in list order, the callback, if
\* given, once right after each of these calls with the candidate and its
\* result; nfev is the length of the list and success is true.
C30_EachCandidateOnceWithCallback ==
  (g_pc = "done" /\ g_result # "raised") =>
    /\ g_result = "returned"
    /\ Len(GridEvals) = Len(g_x0)
    /\ \A i \in 1 .. Len(g_x0) : GridEvals[i].x = g_x0[i]
    /\ IF g_callback
         THEN /\ Len(g_log) = 2 * Len(g_x0)
              /\ \A i \in 1 .. Len(g_x0) :
                   /\ g_log[2 * i - 1].ev = "eval"
                   /\ g_log[2 * i] = [ev |-> "cb", x |-> g_x0[i],
                                      res |-> g_log[2 * i - 1].res]
         ELSE g_log = GridEvals
    /\ g_opt.nfev = Len(g_x0)
    /\ g_opt.success

\* v lies within the bounds
Within(v, b) == b.lo <= v /\ v <= b.hi

\* C33: with (valid) bounds given, in a call from scratch the two points of
\* every iteration lie within the bounds when they are evaluated, and so do
\* the theta of the final evaluation and the theta returned.
C33_EvaluatedWithinBounds ==
  (bounds.has /\ ~BadBounds(bounds) /\ ~resumed) =>
    /\ sp_pc \in {"plus", "minus"} =>
         (Within(theta_plus, bounds) /\ Within(theta_minus, bounds))
    /\ (sp_pc = "done" /\ ev_log # <<>> /\ ev_log[Len(ev_log)] = "final") =>
         Within(theta, bounds)

\* C40: a call in which nothing raises comes to its end; the iterations it
\* executes are at most max(0, maxiter - n) for the n_iter n it started
\* with, and the nit of a returned call is at most max(maxiter, n).
C40_TerminatesWithinMaxiter ==
  /\ <>(sp_pc = "done")
  /\ [](sp_pc # "start" =>
          /\ n_iter0 <= n_iter
          /\ n_iter - n_iter0 <=
               (IF maxiter > n_iter0 THEN maxiter - n_iter0 ELSE 0)
          /\ (sp_pc = "done" /\ sp_result = "returned") =>
               n_iter <= (IF maxiter > n_iter0 THEN maxiter ELSE n_iter0))
  /\ [][n_iter' # n_iter =>
          \/ sp_pc = "start"
          \/ sp_pc = "minus" /\ n_iter' = n_iter + 1]_vars

C40_Witness ==
  /\ sp_pc = "done" /\ sp_result = "returned"
  /\ maxiter = MaxIter
  /\ n_iter0 = 0
  /\ n_iter = maxiter
  /\ rmess = "maxiter"

\* C34: in a soft run_batch with retry_failures of the distributed backend,
\* a task seen finished with an error value in the last round has its item
\* among the futures submitted for the next round, whatever the other tasks
\* of the round were; and no entry of ret carries an error value.
C34_ErrorValueIsRetried ==
  (d_retry /\ ~d_hard /\ d_rounds > 0 /\ d_rounds < MaxRounds
     /\ d_pc \in {"wait", "done"}) =>
    /\ \A i \in DOMAIN d_seen :
         (d_seen[i].status = "finished"
            /\ d_seen[i].result.kind = "exception") =>
           /\ d_pc = "wait"
           /\ \E j \in DOMAIN d_rlist : d_rlist[j].item = d_seen[i].item
    /\ \A k \in DOMAIN d_ret : d_ret[k].out.kind # "exception"

\* C35: when run_batch of the sequential backend has returned or raised, the
\* list the caller passed is what it was at the call: same length, same
\* items, same order.
C35_CallerListUnchanged ==
  (s_pc = "done" /\ s_result \in {"returned", "raised"}) =>
    s_params = s_orig

\* C36: the context of every returned entry is the instance its work item
\* was built from.
C36_StripRestoresInstance ==
  (o_pc = "done" /\ o_result = "returned") =>
    \A i \in DOMAIN o_ret : o_ret[i].item = o_instances[o_ret[i].idx]

\* C36 as it holds: the context of every returned entry is the instance its
\* work item was built from without the keys that are fit-parameter or
\* auxiliary-parameter names, with the instance's values; it is the whole
\* instance when the instance has no such key.
C36_StripRestoresUnlessKeysCollide ==
  (o_pc = "done" /\ o_result = "returned") =>
    \A i \in DOMAIN o_ret :
      LET inst == o_instances[o_ret[i].idx]
          strip == {o_pnames[j] : j \in DOMAIN o_pnames} \cup DOMAIN o_aux
      IN /\ DOMAIN o_ret[i].item = DOMAIN inst \ strip
         /\ \A k \in DOMAIN o_ret[i].item : o_ret[i].item[k] = inst[k]
         /\ DOMAIN inst \cap strip = {} => o_ret[i].item = inst

C36_Witness ==
  /\ o_pc = "done" /\ o_result = "returned"
  /\ Len(o_ret) = 2
  /\ o_pnames # <<>>
  /\ DOMAIN o_aux # {}
  /\ DOMAIN o_instances[1] # {}
  /\ \A j \in DOMAIN o_pnames : o_pnames[j] \notin DOMAIN o_instances[1]
  /\ DOMAIN o_aux \cap DOMAIN o_instances[1] = {}
  /\ o_ret[1].item = o_instances[o_ret[1].idx]

\* C37: the list a local-pool run_batch returns holds, for every item value,
\* at most as many entries as the batch of this call holds items of that
\* value: nothing of another batch is in it.
C37_OnlyEntriesOfThisBatch ==
  (p_pc = "done" /\ p_result = "returned") =>
    \A v \in Items : Count(v, ItemsOf(p_rlist)) <= Count(v, p_params)

\* C38: when a local-pool run_batch has returned or raised, the dispatcher
\* holds none of the three conditions.
C38_NoGuardHeldAfterRunBatch ==
  p_pc = "done" =>
    /\ cin # HeldByDispatcher
    /\ cout # HeldByDispatcher
    /\ cerr # HeldByDispatcher

\* C32: when the constructor of the exported ProducerManager, called with
\* n_proc >= 1, has ended, it has returned the manager, n_proc Producers were
\* created and started, and the manager is runnable.
C32_ConstructsNWorkers ==
  (k_module = "managers" /\ k_n >= 1 /\ k_pc = "done") =>
    /\ k_result = "constructed"
    /\ Len(k_plist) = k_n
    /\ k_started = k_n
    /\ k_runnable

\* C31 (as stated): in an optimize call with a database the FunctionCalls
\* records written are as many as the run_step calls the optimizer made, each
\* with one process_all_data call, and the SolverResults records as many as
\* the callback calls, both named 0, 1, 2, ...; an SPSA run of n iterations
\* that returned left 2n+1 and n of them; without a database nothing is
\* written.
C31_RecordsEqualCallsMade ==
  (c_pc \in {"idle", "solve", "result", "advance"} /\ c_call >= 1) =>
    /\ c_sink =>
         /\ Len(FunctionCallRecords) = c_evals
         /\ c_cycles = c_evals
         /\ Len(SolverRecords) = c_cbs
         /\ NumberedFromZero(FunctionCallRecords)
         /\ NumberedFromZero(SolverRecords)
         /\ (c_prog = "spsa" /\ c_result = "returned") =>
              /\ Len(FunctionCallRecords) = 2 * c_n + 1
              /\ Len(SolverRecords) = c_n
    /\ ~c_sink => (db_runs = <<>> /\ db_cur = 0 /\ c_log = <<>>)

\* C31 (amended): the FunctionCalls records are as many as the run_step calls
\* whose data and objective came back, which are all calls made except
\* possibly a last one that raised; the rest is as stated.
C31_RecordsEqualCallsCompleted ==
  (c_pc \in {"idle", "solve", "result", "advance"} /\ c_call >= 1) =>
    /\ c_sink =>
         /\ Len(FunctionCallRecords) = c_completed
         /\ c_completed <= c_evals
         /\ c_evals <= c_completed + 1
         /\ (c_result # "raised") => c_completed = c_evals
         /\ c_cycles = c_evals
         /\ Len(SolverRecords) = c_cbs
         /\ NumberedFromZero(FunctionCallRecords)
         /\ NumberedFromZero(SolverRecords)
         /\ (c_prog = "spsa" /\ c_result = "returned") =>
              /\ Len(FunctionCallRecords) = 2 * c_n + 1
              /\ Len(SolverRecords) = c_n
    /\ ~c_sink => (db_runs = <<>> /\ db_cur = 0 /\ c_log = <<>>)

C31_Witness ==
  /\ c_sink
  /\ c_pc = "idle"
  /\ c_prog = "spsa"
  /\ c_n = MaxOptIter
  /\ c_result = "returned"
  /\ Len(FunctionCallRecords) = 2 * MaxOptIter + 1
  /\ Len(SolverRecords) = MaxOptIter

\* C39: in an optimize call with a database the Initialization is written
\* first, OptimizationResult after every FunctionCalls and SolverResults
\* record, the run counter advances last, and every optimize call that has
\* started has created a run group of its own.
C39_OrderAndOwnRunGroup ==
  (c_sink /\ c_call >= 1) =>
    /\ \A i \in DOMAIN c_log :
         /\ (c_log[i] = "Initialization") <=> (i = 1)
         /\ c_log[i] = "OptimizationResult" =>
              \A j \in DOMAIN c_log :
                c_log[j] \in {"FunctionCalls", "SolverResults"} => j < i
         /\ c_log[i] = "CurrentOptRun" =>
              /\ i = Len(c_log)
              /\ i > 1
              /\ c_log[i - 1] = "OptimizationResult"
    /\ \A k \in DOMAIN c_groups :
         /\ c_groups[k] # None
         /\ \A m \in DOMAIN c_groups : m # k => c_groups[m] # c_groups[k]

====
